---- MODULE Spec2Model ----
(***************************************************************************)
(* A model of the agentic loop of alec-host/ai-agent-app:                  *)
(*   src/src/main.py            handle_agent_query, CalendarServiceClient  *)
(*   src/src/agent_manager.py   execute_tool_call                          *)
(*   src/src/agents/calendar_agent.py   handle_calendar                    *)
(*   src/src/utils.py           sanitize_history, retry_with_backoff       *)
(*                                                                         *)
(* Python values are carried as follows.  A str is a TLA+ string (TLC      *)
(* treats strings as sequences of characters, so Len, SubSeq and \o are    *)
(* the Python len, slice and +).  A dict is a record whose DOMAIN is the   *)
(* set of keys present.  A list is a sequence.  None is the string None    *)
(* below; a JSON number is carried as its decimal text.                    *)
(***************************************************************************)
EXTENDS Integers, Sequences, FiniteSets, TLC

VARIABLES
    scenario,        \* which family of model proposals / backend behaviour the environment plays
    inbound,         \* the HTTP request: headers and body
    pc,              \* position of the request's task
    auth,            \* verify_tenant_access's result
    cleaned_history, \* handle_agent_query: cleaned_history
    locked_params,   \* handle_agent_query: locked_params
    headers,         \* calendar_service.headers
    messages,        \* handle_agent_query: messages
    last_action,     \* handle_agent_query: last_action
    i,               \* handle_agent_query: the loop variable of "for i in range(5)"
    tool_calls,      \* assistant_msg.tool_calls of the round being executed
    k,               \* index (1-based) of the tool call the inner loop is at
    loop_messages,   \* the turn list handed to the latest model consultation
    consults,        \* number of model consultations so far
    proposed,        \* every action the model proposed, as the model wrote it
    backend,         \* every HTTP attempt group issued to the Node.js backend, in order
    outcome,         \* what the HTTP layer gave back: the returned mapping or the error
    san_in,          \* sanitize_history: the argument history
    san_max,         \* sanitize_history: max_content_length
    san_keep,        \* sanitize_history: keep_last_n
    san_outs,        \* results of successive applications of sanitize_history
    peer             \* a second request's task while it is suspended: its locals

vars == <<scenario, inbound, pc, auth, cleaned_history, locked_params, headers,
          messages, last_action, i, tool_calls, k, loop_messages, consults,
          proposed, backend, outcome, san_in, san_max, san_keep, san_outs, peer>>

reqVars == <<scenario, inbound, pc, auth, cleaned_history, locked_params, headers,
             messages, last_action, i, tool_calls, k, loop_messages, consults,
             proposed, backend, outcome>>

sanVars == <<san_in, san_max, san_keep, san_outs>>

(***************************************************************************)
(* Python values                                                           *)
(***************************************************************************)
None == "<None>"

\* d.get(key) on a dict
Get(d, key) == IF key \in DOMAIN d THEN d[key] ELSE None

\* truth value of a str-or-None
Truthy(v) == v # None /\ v # ""

\* d with d[key] = v set (key added when absent)
Put(d, key, v) == [x \in DOMAIN d \cup {key} |-> IF x = key THEN v ELSE d[x]]

\* d.pop(key, None)
Pop(d, key) == [x \in DOMAIN d \ {key} |-> d[x]]

\* s * n for a one-character string s
RECURSIVE Repeat(_, _)
Repeat(s, n) ==
    IF n = 0 THEN ""
    ELSE IF n % 2 = 1 THEN s \o Repeat(s, n - 1)
    ELSE LET h == Repeat(s, n \div 2) IN h \o h

(***************************************************************************)
(* src/src/utils.py: sanitize_history                                      *)
(***************************************************************************)
DefaultMaxContentLength == 2000
DefaultKeepLastN == 3

\* f" ... [Truncated: {n} chars]"
TruncationMarker(n) == " ... [Truncated: " \o ToString(n) \o " chars]"

\* step 3 without the is_recent test of lines 35 and 39
SanitizeContentAnyAge(content, idx, total_msgs, max_content_length, keep_last_n) ==
    IF content # None /\ Len(content) > max_content_length
    THEN SubSeq(content, 1, max_content_length)
           \o TruncationMarker(Len(content) - max_content_length)
    ELSE content

\* step 3 of the loop body: the content of the turn at 0-based index idx
SanitizeContent(content, idx, total_msgs, max_content_length, keep_last_n) ==
    LET is_recent == idx >= (total_msgs - keep_last_n) IN
    IF content # None /\ ~is_recent /\ Len(content) > max_content_length
    THEN SubSeq(content, 1, max_content_length)
           \o TruncationMarker(Len(content) - max_content_length)
    ELSE content

\* one turn of the loop: the dict is copied, tool_calls kept, content cut
SanitizeTurn(msg, idx, total_msgs, max_content_length, keep_last_n) ==
    IF "content" \in DOMAIN msg
    THEN [msg EXCEPT !.content =
            SanitizeContent(msg.content, idx, total_msgs,
                            max_content_length, keep_last_n)]
    ELSE msg

sanitize_history(history, max_content_length, keep_last_n) ==
    [n \in 1..Len(history) |->
        SanitizeTurn(history[n], n - 1, Len(history),
                     max_content_length, keep_last_n)]

(***************************************************************************)
(* Characters and small string helpers used by the regular expressions,    *)
(* the ISO-8601 arithmetic and urllib.parse.quote                          *)
(***************************************************************************)
Char(s, n) == SubSeq(s, n, n)

Digits == {"0", "1", "2", "3", "4", "5", "6", "7", "8", "9"}

DigitVal(c) ==
    CASE c = "0" -> 0 [] c = "1" -> 1 [] c = "2" -> 2 [] c = "3" -> 3
      [] c = "4" -> 4 [] c = "5" -> 5 [] c = "6" -> 6 [] c = "7" -> 7
      [] c = "8" -> 8 [] OTHER -> 9

AllDigits(s) == Len(s) > 0 /\ \A n \in 1..Len(s) : Char(s, n) \in Digits

\* int(s) for a decimal text
RECURSIVE ParseNat(_)
ParseNat(s) ==
    IF Len(s) = 0 THEN 0
    ELSE 10 * ParseNat(SubSeq(s, 1, Len(s) - 1)) + DigitVal(Char(s, Len(s)))

\* f"{n:02d}"
Pad2(n) == IF n < 10 THEN "0" \o ToString(n) ELSE ToString(n)

EndsWith(s, t) == Len(s) >= Len(t) /\ SubSeq(s, Len(s) - Len(t) + 1, Len(s)) = t

\* re.search(r"Z$|[+-]\d{2}:?\d{2}$", s)
HasOffsetSuffix(s) ==
    LET n == Len(s) IN
    \/ EndsWith(s, "Z")
    \/ /\ n >= 6
       /\ Char(s, n - 5) \in {"+", "-"}
       /\ AllDigits(SubSeq(s, n - 4, n - 3))
       /\ Char(s, n - 2) = ":"
       /\ AllDigits(SubSeq(s, n - 1, n))
    \/ /\ n >= 5
       /\ Char(s, n - 4) \in {"+", "-"}
       /\ AllDigits(SubSeq(s, n - 3, n))

\* s.replace('Z', '+00:00')
RECURSIVE ReplaceZ(_)
ReplaceZ(s) ==
    IF Len(s) = 0 THEN ""
    ELSE (IF Char(s, 1) = "Z" THEN "+00:00" ELSE Char(s, 1))
            \o ReplaceZ(SubSeq(s, 2, Len(s)))

\* urllib.parse.quote(s): unreserved characters and "/" are kept
QuoteChar(c) ==
    CASE c = ":" -> "%3A"
      [] c = "+" -> "%2B"
      [] c = " " -> "%20"
      [] OTHER -> c

RECURSIVE quote(_)
quote(s) ==
    IF Len(s) = 0 THEN ""
    ELSE QuoteChar(Char(s, 1)) \o quote(SubSeq(s, 2, Len(s)))

(***************************************************************************)
(* src/src/main.py: CalendarServiceClient, the time helpers                *)
(***************************************************************************)
\* _get_local_offset: the UTC offset of the server's local zone
LocalOffset == "+03:00"

\* settings.NODE_SERVICE_URL
NODE_SERVICE_URL == "http://localhost:3005"

ensure_timezone_offset(iso_string) ==
    IF ~Truthy(iso_string) \/ HasOffsetSuffix(iso_string)
    THEN iso_string
    ELSE iso_string \o LocalOffset

\* datetime.fromisoformat accepts "YYYY-MM-DDTHH:MM:SS+HH:MM"
IsIsoInstant(s) ==
    /\ Len(s) = 25
    /\ AllDigits(SubSeq(s, 1, 4)) /\ Char(s, 5) = "-"
    /\ AllDigits(SubSeq(s, 6, 7)) /\ Char(s, 8) = "-"
    /\ AllDigits(SubSeq(s, 9, 10)) /\ Char(s, 11) = "T"
    /\ AllDigits(SubSeq(s, 12, 13)) /\ Char(s, 14) = ":"
    /\ AllDigits(SubSeq(s, 15, 16)) /\ Char(s, 17) = ":"
    /\ AllDigits(SubSeq(s, 18, 19))
    /\ Char(s, 20) \in {"+", "-"}
    /\ AllDigits(SubSeq(s, 21, 22)) /\ Char(s, 23) = ":"
    /\ AllDigits(SubSeq(s, 24, 25))
    /\ ParseNat(SubSeq(s, 12, 13)) < 24
    /\ ParseNat(SubSeq(s, 15, 16)) < 60

\* start_dt + timedelta(minutes=duration_min), then isoformat(); the instants
\* of the model stay within one calendar day
AddMinutes(s, duration_min) ==
    LET total == 60 * ParseNat(SubSeq(s, 12, 13)) + ParseNat(SubSeq(s, 15, 16))
                    + duration_min
    IN  SubSeq(s, 1, 11) \o Pad2((total \div 60) % 24) \o ":" \o Pad2(total % 60)
            \o SubSeq(s, 17, 25)

\* calculate_end_time: any exception (a None start, a start that does not
\* parse) is logged and None is returned
calculate_end_time(start_iso, duration_min) ==
    IF start_iso = None THEN None
    ELSE LET safe_start == ReplaceZ(ensure_timezone_offset(start_iso)) IN
         IF IsIsoInstant(safe_start)
         THEN AddMinutes(safe_start, duration_min)
         ELSE None

(***************************************************************************)
(* src/src/utils.py: retry_with_backoff; src/src/main.py: _do_request      *)
(*                                                                         *)
(* The transport is the environment: "failures" is the number of           *)
(* consecutive attempts of one call that raise before one returns.         *)
(***************************************************************************)
\* the wrapper's "while True" loop at counter x
RECURSIVE RetryLoop(_, _, _)
RetryLoop(x, retries, failures) ==
    IF x >= failures
    THEN [raised |-> FALSE, attempts |-> x + 1]
    ELSE IF x = retries
         THEN [raised |-> TRUE, attempts |-> x + 1]
         ELSE RetryLoop(x + 1, retries, failures)

retry_with_backoff(retries, failures) == RetryLoop(0, retries, failures)

\* @retry_with_backoff(retries=3, backoff_in_seconds=1)
Retries == 3

\* the decorator with one more retry than line 118 gives it
_do_request_retries_4(failures) == retry_with_backoff(Retries + 1, failures)

_do_request(failures) == retry_with_backoff(Retries, failures)

(***************************************************************************)
(* JSON.  The arguments string of a tool call is carried as                *)
(* [json |-> kind, value |-> v]: kind "invalid" is a text json.loads       *)
(* rejects, "nonobject" a valid JSON text that is not an object (a list,   *)
(* null, a number), "object" a JSON object with value the parsed dict.     *)
(***************************************************************************)
EmptyDict == [x \in {} |-> ""]

InvalidJson == [json |-> "invalid", value |-> EmptyDict]
NonObjectJson == [json |-> "nonobject", value |-> EmptyDict]

\* json.dumps(d) as carried in a tool call's arguments
ArgsText(d) == [json |-> "object", value |-> d]

\* json.loads(text): raises on an invalid text
json_loads(text) ==
    [raised |-> text.json = "invalid",
     is_dict |-> text.json = "object",
     value |-> text.value]

\* keys of the structured results, in the order the code inserts them
JsonKeys == <<"error", "details", "status", "jwtToken", "hasConflict",
              "auth_required", "auth_url", "id", "message", "_continue_chaining">>

BoolKeys == {"hasConflict", "auth_required", "_continue_chaining"}

JsonValue(key, v) ==
    IF key \in BoolKeys THEN (IF v THEN "true" ELSE "false")
    ELSE IF key = "status" /\ AllDigits(v) THEN v
    ELSE "\"" \o v \o "\""

RECURSIVE JsonMembers(_, _, _)
JsonMembers(d, n, first) ==
    IF n > Len(JsonKeys) THEN ""
    ELSE IF JsonKeys[n] \in DOMAIN d
         THEN (IF first THEN "" ELSE ", ")
                \o "\"" \o JsonKeys[n] \o "\": " \o JsonValue(JsonKeys[n], d[JsonKeys[n]])
                \o JsonMembers(d, n + 1, FALSE)
         ELSE JsonMembers(d, n + 1, first)

\* json.dumps(result) of a structured result
json_dumps(d) == "{" \o JsonMembers(d, 1, TRUE) \o "}"

(***************************************************************************)
(* src/src/main.py: CalendarServiceClient.request and check_conflicts      *)
(*                                                                         *)
(* net = [failures, reply] is what the network does to one call;           *)
(* reply = [status_code, token_text, is_json, body] is the HTTP response   *)
(* of the attempt that returns.                                            *)
(***************************************************************************)
\* lines 141-145: startTime/endTime without offset get the local offset
WithOffsets(json_data) ==
    [f \in DOMAIN json_data |->
        IF f \in {"startTime", "endTime"} /\ Truthy(json_data[f])
             /\ ~HasOffsetSuffix(json_data[f])
        THEN json_data[f] \o LocalOffset
        ELSE json_data[f]]

\* the record kept of one call: what was sent, how many consecutive failures
\* the network produced, how many attempts were made, what request returned
\* and (set by the loop) the id of the tool call it was issued for
BackendCall(method, path, json_data, hdrs, failures, attempts, result) ==
    [method |-> method, url |-> NODE_SERVICE_URL \o path, path |-> path,
     json |-> json_data, headers |-> hdrs, failures |-> failures,
     attempts |-> attempts, result |-> result, for |-> ""]

\* lines 146-157
RequestResult(tenant_id, net) ==
    IF _do_request(net.failures).raised
    THEN [error |-> "system_offline"]
    ELSE IF net.reply.status_code \in {"400", "401"} /\ net.reply.token_text
         THEN [status |-> "ready_to_reauth", auth_required |-> TRUE,
               auth_url |-> NODE_SERVICE_URL \o "/auth/google?tenant_id=" \o tenant_id]
         ELSE IF net.reply.is_json
              THEN net.reply.body
              ELSE [error |-> "system_offline"]

request(method, path, json_data, hdrs, tenant_id, net) ==
    [result |-> RequestResult(tenant_id, net),
     call |-> BackendCall(method, path, WithOffsets(json_data), hdrs,
                          net.failures, _do_request(net.failures).attempts,
                          RequestResult(tenant_id, net))]

ConflictPath(start_iso, end_iso) ==
    "/events/check-conflicts?startTime=" \o quote(ensure_timezone_offset(start_iso))
        \o "&endTime=" \o quote(ensure_timezone_offset(end_iso))

\* a conflict checker that reports a conflict whenever the backend gave no
\* answer
check_conflictsFailClosed(start_iso, end_iso, hdrs, tenant_id, net) ==
    LET r == request("GET", ConflictPath(start_iso, end_iso), EmptyDict,
                     hdrs, tenant_id, net)
    IN  [value |-> \/ "error" \in DOMAIN r.result
                   \/ ("hasConflict" \in DOMAIN r.result /\ r.result.hasConflict = TRUE),
         call |-> r.call]

check_conflicts(start_iso, end_iso, hdrs, tenant_id, net) ==
    LET r == request("GET", ConflictPath(start_iso, end_iso), EmptyDict,
                     hdrs, tenant_id, net)
    IN  [value |-> "hasConflict" \in DOMAIN r.result /\ r.result.hasConflict = TRUE,
         call |-> r.call]

(***************************************************************************)
(* The two title regular expressions (re.IGNORECASE, re.search)            *)
(***************************************************************************)
Whitespace == {" ", "\t", "\n", "\r", "\f"}
CaptureStop == {"'", "\"", "\n"}

\* lower case of the letters the keywords are made of
LowerChar(c) ==
    CASE c = "T" -> "t" [] c = "I" -> "i" [] c = "L" -> "l" [] c = "E" -> "e"
      [] c = "S" -> "s" [] c = "U" -> "u" [] c = "B" -> "b" [] c = "J" -> "j"
      [] c = "C" -> "c" [] c = "M" -> "m" [] c = "A" -> "a" [] c = "R" -> "r"
      [] c = "Y" -> "y" [] OTHER -> c

\* word matches s at position p, ignoring case
WordAt(s, p, word) ==
    /\ p + Len(word) - 1 <= Len(s)
    /\ \A n \in 1..Len(word) : LowerChar(Char(s, p + n - 1)) = Char(word, n)

\* number of characters of s from position p on that are (are not) in Set
RECURSIVE RunIn(_, _, _)
RunIn(s, p, Set) ==
    IF p > Len(s) \/ Char(s, p) \notin Set THEN 0 ELSE 1 + RunIn(s, p + 1, Set)

RECURSIVE RunNotIn(_, _, _)
RunNotIn(s, p, Set) ==
    IF p > Len(s) \/ Char(s, p) \in Set THEN 0 ELSE 1 + RunNotIn(s, p + 1, Set)

NoMatch == [ok |-> FALSE, group1 |-> ""]

\* ['\"]?([^'\"\n]+) at position p
QuotedCapture(s, p) ==
    IF p <= Len(s) /\ Char(s, p) \in {"'", "\""} /\ RunNotIn(s, p + 1, CaptureStop) > 0
    THEN [ok |-> TRUE,
          group1 |-> SubSeq(s, p + 1, p + RunNotIn(s, p + 1, CaptureStop))]
    ELSE IF RunNotIn(s, p, CaptureStop) > 0
         THEN [ok |-> TRUE,
               group1 |-> SubSeq(s, p, p + RunNotIn(s, p, CaptureStop) - 1)]
         ELSE NoMatch

\* \s+['\"]?([^'\"\n]+) at position p: \s+ is greedy and gives back one
\* character at a time (w of them are taken)
RECURSIVE SpaceThenCapture(_, _, _)
SpaceThenCapture(s, p, w) ==
    IF w < 1 THEN NoMatch
    ELSE IF QuotedCapture(s, p + w).ok THEN QuotedCapture(s, p + w)
         ELSE SpaceThenCapture(s, p, w - 1)

SpaceCapture(s, p) == SpaceThenCapture(s, p, RunIn(s, p, Whitespace))

\* agent_manager.py line 41, anchored at p:
\*   (?:title|subject)\s+(?:is|:)\s+['\"]?([^'\"\n]+)['\"]?
TitleMatchAt(s, p) ==
    LET kw == IF WordAt(s, p, "title") THEN 5
              ELSE IF WordAt(s, p, "subject") THEN 7 ELSE 0
        q  == p + kw + RunIn(s, p + kw, Whitespace)
        m  == IF WordAt(s, q, "is") THEN 2 ELSE IF WordAt(s, q, ":") THEN 1 ELSE 0
    IN  IF kw = 0 \/ q = p + kw \/ m = 0 THEN NoMatch ELSE SpaceCapture(s, q + m)

\* main.py line 216, anchored at p:
\*   (?:title|subject|summary)(?:\s+is|:)?\s+['\"]?([^'\"\n]+)['\"]?
LockMatchAt(s, p) ==
    LET kw == IF WordAt(s, p, "title") THEN 5
              ELSE IF WordAt(s, p, "subject") \/ WordAt(s, p, "summary") THEN 7
              ELSE 0
        q  == p + kw + RunIn(s, p + kw, Whitespace)
        withIs == IF q > p + kw /\ WordAt(s, q, "is") THEN SpaceCapture(s, q + 2) ELSE NoMatch
        withColon == IF WordAt(s, p + kw, ":") THEN SpaceCapture(s, p + kw + 1) ELSE NoMatch
    IN  IF kw = 0 THEN NoMatch
        ELSE IF withIs.ok THEN withIs
        ELSE IF withColon.ok THEN withColon
        ELSE SpaceCapture(s, p + kw)

\* re.search: the match at the leftmost position that has one
TitleSearch(s) ==
    LET at == {p \in 1..Len(s) : TitleMatchAt(s, p).ok} IN
    IF at = {} THEN NoMatch
    ELSE TitleMatchAt(s, CHOOSE p \in at : \A o \in at : p <= o)

LockSearch(s) ==
    LET at == {p \in 1..Len(s) : LockMatchAt(s, p).ok} IN
    IF at = {} THEN NoMatch
    ELSE LockMatchAt(s, CHOOSE p \in at : \A o \in at : p <= o)

(***************************************************************************)
(* src/src/agents/calendar_agent.py: handle_calendar                       *)
(*                                                                         *)
(* The operators that run a handler return                                 *)
(*   [raised, result, calls]: whether an exception left the handler, the   *)
(*   mapping it returned, and the backend calls it issued, in order.       *)
(***************************************************************************)
\* Python's "a or b" on str-or-None operands
Or(a, b) == IF Truthy(a) THEN a ELSE b

\* str(v) inside an f-string
FStr(v) == IF v = None THEN "None" ELSE v

Returned(result, calls) == [raised |-> FALSE, result |-> result, calls |-> calls]
Raised(calls) == [raised |-> TRUE, result |-> EmptyDict, calls |-> calls]

Requested(r) == Returned(r.result, <<r.call>>)

\* lines 14-54: schedule_event and update_event
\* a handler that sends the action on even when no end time could be
\* computed from its start
ScheduleOrUpdateUnchecked(func_name, args, hdrs, tenant_id, net) ==
    LET input_title == Or(Get(args, "title"), Get(args, "summary"))
        titled == Pop(Put(args, "title",
                          IF Truthy(input_title) THEN input_title
                          ELSE "Scheduled Meeting"),
                      "summary")
        endpoint == IF func_name = "schedule_event" THEN "/events"
                    ELSE "/events/" \o FStr(Get(args, "event_id"))
        method == IF func_name = "schedule_event" THEN "POST" ELSE "PATCH"
        duration == IF "duration_minutes" \in DOMAIN args
                    THEN ParseNat(args.duration_minutes) ELSE 60
        req_end_str == calculate_end_time(Get(args, "startTime"), duration)
    IN  Requested(request(method, endpoint,
                          IF Truthy(req_end_str)
                          THEN Put(titled, "endTime", req_end_str) ELSE titled,
                          hdrs, tenant_id, net))

ScheduleOrUpdate(func_name, args, hdrs, tenant_id, net) ==
    LET input_title == Or(Get(args, "title"), Get(args, "summary"))
        titled == Pop(Put(args, "title",
                          IF Truthy(input_title) THEN input_title
                          ELSE "Scheduled Meeting"),
                      "summary")
        has_minutes == "duration_minutes" \in DOMAIN args
        duration == IF has_minutes THEN ParseNat(args.duration_minutes) ELSE 60
        req_end_str == calculate_end_time(titled.startTime, duration)
        endpoint == IF func_name = "schedule_event" THEN "/events"
                    ELSE "/events/" \o FStr(Get(args, "event_id"))
        method == IF func_name = "schedule_event" THEN "POST" ELSE "PATCH"
    IN  IF Truthy(Get(args, "startTime"))
        THEN IF has_minutes /\ ~AllDigits(args.duration_minutes)
             THEN Raised(<<>>)                       \* int(...) raises ValueError
             ELSE IF ~Truthy(req_end_str)
                  THEN Returned([error |-> "Invalid time format provided. Please use ISO format or clear relative time."], <<>>)
                  ELSE Requested(request(method, endpoint,
                                         Put(titled, "endTime", req_end_str),
                                         hdrs, tenant_id, net))
        ELSE Requested(request(method, endpoint, titled, hdrs, tenant_id, net))

\* lines 57-82: initialize_calendar_session
SessionMessage(args) ==
    LET p_title == Or(Get(args, "title"), Get(args, "summary"))
        p_start == Get(args, "startTime")
        t == IF Truthy(p_title) THEN "Title='" \o p_title \o "'" ELSE ""
        st == IF Truthy(p_start) THEN "StartTime='" \o p_start \o "'" ELSE ""
        facts == IF t # "" /\ st # "" THEN t \o ", " \o st ELSE t \o st
        fact_block == IF facts # "" THEN " [FACTS RECOVERED: " \o facts \o "]" ELSE ""
    IN  "SUCCESS: Session ready." \o fact_block
          \o " INSTRUCTION: You are now authorized. Check the PENDING DATA in your system prompt. "
          \o "If you have both a Title and Time, call 'schedule_event' IMMEDIATELY."

InitializeSession(args, hdrs, tenant_id, net) ==
    LET r == request("GET", "/auth/accessToken?tenant_id=" \o FStr(Get(args, "tenant_id")),
                     EmptyDict, hdrs, tenant_id, net)
    IN  IF Get(r.result, "status") = "ready"
        THEN Returned(Put(Put(r.result, "message", SessionMessage(args)),
                          "_continue_chaining", TRUE),
                      <<r.call>>)
        ELSE Requested(r)

\* delete_event without the role test of line 88
DeleteEventAnyRole(args, hdrs, tenant_id, user_role, net) ==
    Requested(request("DELETE", "/events/" \o FStr(Get(args, "event_id")),
                      EmptyDict, hdrs, tenant_id, net))

\* lines 87-90: delete_event
DeleteEvent(args, hdrs, tenant_id, user_role, net) ==
    IF user_role # "admin"
    THEN Returned([error |-> "Unauthorized: Admin role required for deletion."], <<>>)
    ELSE Requested(request("DELETE", "/events/" \o FStr(Get(args, "event_id")),
                           EmptyDict, hdrs, tenant_id, net))

handle_calendar(func_name, args, hdrs, tenant_id, user_role, net) ==
    IF func_name \in {"schedule_event", "update_event"}
    THEN ScheduleOrUpdate(func_name, args, hdrs, tenant_id, net)
    ELSE IF func_name = "initialize_calendar_session"
    THEN InitializeSession(args, hdrs, tenant_id, net)
    ELSE IF func_name = "get_all_events"
    THEN Requested(request("GET", "/events", EmptyDict, hdrs, tenant_id, net))
    ELSE IF func_name = "delete_event"
    THEN DeleteEvent(args, hdrs, tenant_id, user_role, net)
    ELSE Returned([error |-> "Function " \o func_name \o " not implemented"], <<>>)

(***************************************************************************)
(* src/src/agent_manager.py: execute_tool_call                             *)
(***************************************************************************)
calendar_funcs == {"get_all_events", "get_event_by_id", "schedule_event",
                   "delete_event", "update_event", "get_system_status",
                   "initialize_calendar_session", "check_calendar_connection"}

\* the injected args["_system_context"]; the clock is read at dispatch
SystemContext == [current_time |-> "2026-02-09T10:00:00+03:00",
                  day_of_week |-> "Monday",
                  timezone_offset |-> LocalOffset]

HasToolCalls(msg) == "tool_calls" \in DOMAIN msg /\ msg.tool_calls # <<>>

Reversed(seq) == [n \in 1..Len(seq) |-> seq[Len(seq) + 1 - n]]

\* the arguments texts of the tool calls of history, in the order lines 23-26
\* visit them: turns newest first, the calls of one turn in their own order
RECURSIVE ArgumentsOf(_)
ArgumentsOf(msgs) ==
    IF msgs = <<>> THEN <<>>
    ELSE (IF HasToolCalls(Head(msgs))
          THEN [n \in 1..Len(Head(msgs).tool_calls) |-> Head(msgs).tool_calls[n].arguments]
          ELSE <<>>)
         \o ArgumentsOf(Tail(msgs))

\* lines 27-34 for one earlier call: a text that does not parse to a dict
\* raises inside the try and is skipped
MergeOne(args, text) ==
    LET prev_args == json_loads(text).value
        prev_title == Or(Get(prev_args, "title"), Get(prev_args, "summary"))
        a1 == IF ~Truthy(Get(args, "startTime")) /\ Truthy(Get(prev_args, "startTime"))
              THEN Put(args, "startTime", prev_args.startTime) ELSE args
    IN  IF json_loads(text).raised \/ ~json_loads(text).is_dict THEN args
        ELSE IF ~Truthy(Get(a1, "title")) /\ Truthy(prev_title)
             THEN Put(a1, "title", prev_title) ELSE a1

RECURSIVE MergeArgs(_, _)
MergeArgs(args, texts) ==
    IF texts = <<>> THEN args
    ELSE MergeArgs(MergeOne(args, Head(texts)), Tail(texts))

\* lines 38-44: the first turn, newest first, whose content names a title
RECURSIVE TitleFromContent(_)
TitleFromContent(msgs) ==
    IF msgs = <<>> THEN NoMatch
    ELSE LET content == FStr(Get(Head(msgs), "content")) IN
         IF TitleSearch(content).ok THEN TitleSearch(content)
         ELSE TitleFromContent(Tail(msgs))

\* lines 20-44 alone: the repair without the tenant enforcement of 16-18
RepairedArgsNoTenant(func_name, args, tenant_id, history) ==
    LET a2 == IF func_name \in {"schedule_event", "initialize_calendar_session"}
              THEN MergeArgs(args, ArgumentsOf(Reversed(history))) ELSE args
        found == TitleFromContent(Reversed(history))
    IN  IF func_name = "schedule_event" /\ ~Truthy(Get(a2, "title")) /\ found.ok
        THEN Put(a2, "title", found.group1) ELSE a2

\* lines 16-44 on a dict
RepairedArgs(func_name, args, tenant_id, history) ==
    LET a1 == IF func_name = "initialize_calendar_session"
                   /\ ~Truthy(Get(args, "tenant_id"))
              THEN Put(args, "tenant_id", tenant_id) ELSE args
        a2 == IF func_name \in {"schedule_event", "initialize_calendar_session"}
              THEN MergeArgs(a1, ArgumentsOf(Reversed(history))) ELSE a1
        found == TitleFromContent(Reversed(history))
    IN  IF func_name = "schedule_event" /\ ~Truthy(Get(a2, "title")) /\ found.ok
        THEN Put(a2, "title", found.group1) ELSE a2

\* CalendarServiceClient.set_auth_token
set_auth_token(hdrs, token) == Put(hdrs, "Authorization", "Bearer " \o token)

\* what execute_tool_call hands back: the handler's effect and the headers
\* of the service client afterwards
Executed(effect, hdrs) ==
    [raised |-> effect.raised, result |-> effect.result,
     calls |-> effect.calls, headers |-> hdrs]

\* lines 64-76 without the set_auth_token of lines 69-71
RunHandlerNoInstall(func_name, args, hdrs, tenant_id, user_role, net) ==
    LET h == handle_calendar(func_name, args, hdrs, tenant_id, user_role, net) IN
    IF h.raised
    THEN Executed(Returned([error |-> "Internal handler error",
                            details |-> "exception in handle_calendar"], h.calls), hdrs)
    ELSE IF func_name = "initialize_calendar_session" /\ Get(h.result, "status") = "ready"
    THEN Executed(Returned(Put(h.result, "_continue_chaining", TRUE), h.calls), hdrs)
    ELSE Executed(h, hdrs)

\* lines 64-76 on a dict
RunHandler(func_name, args, hdrs, tenant_id, user_role, net) ==
    LET h == handle_calendar(func_name, args, hdrs, tenant_id, user_role, net) IN
    IF h.raised
    THEN Executed(Returned([error |-> "Internal handler error",
                            details |-> "exception in handle_calendar"], h.calls), hdrs)
    ELSE IF func_name = "initialize_calendar_session" /\ Get(h.result, "status") = "ready"
    THEN Executed(Returned(Put(h.result, "_continue_chaining", TRUE), h.calls),
                  IF Truthy(Get(h.result, "jwtToken"))
                  THEN set_auth_token(hdrs, h.result.jwtToken) ELSE hdrs)
    ELSE Executed(h, hdrs)

NotRecognized(func_name) ==
    [error |-> "Tool " \o func_name \o " not recognized", status |-> "404"]

execute_tool_call(tool_call, hdrs, user_role, tenant_id, history, net) ==
    LET func_name == tool_call.name
        parsed == json_loads(tool_call.arguments)
    IN  IF parsed.raised
        THEN Executed(Raised(<<>>), hdrs)            \* line 14: json.loads raises
        ELSE IF ~parsed.is_dict
        THEN \* args.get raises AttributeError: uncaught at lines 17 and 37,
             \* caught around handle_calendar at line 74
             IF func_name \in {"initialize_calendar_session", "schedule_event"}
             THEN Executed(Raised(<<>>), hdrs)
             ELSE IF func_name \in calendar_funcs
             THEN Executed(Returned([error |-> "Internal handler error",
                                     details |-> "object has no attribute 'get'"], <<>>), hdrs)
             ELSE Executed(Returned(NotRecognized(func_name), <<>>), hdrs)
        ELSE IF func_name \in calendar_funcs
        THEN RunHandler(func_name,
                        Put(RepairedArgs(func_name, parsed.value, tenant_id, history),
                            "_system_context", SystemContext),
                        hdrs, tenant_id, user_role, net)
        ELSE Executed(Returned(NotRecognized(func_name), <<>>), hdrs)

(***************************************************************************)
(* The environment: the caller's requests, the language model's replies    *)
(* and the network.  Each scenario is one family of behaviours the         *)
(* environment plays against a request.                                    *)
(***************************************************************************)
\* largest number of consecutive failing attempts the network produces
MaxFailures == 4

\* longest submitted history of the generated histories
MaxHistoryLen == 3

\* longest history handed to sanitize_history on its own
MaxSanitizeLen == 4

Scenarios == {"intake", "delete", "schedule", "flaky", "malformed", "session",
              "retitle", "window"}

StartA == "2026-02-10T14:00:00Z"
StartB == "2026-02-11T09:30:00+03:00"

UserTurn(text) == [role |-> "user", content |-> text, tool_calls |-> <<>>]
AssistantText(text) == [role |-> "assistant", content |-> text, tool_calls |-> <<>>]
ToolCall(id, name, arguments) ==
    [id |-> id, type |-> "function", name |-> name, arguments |-> arguments]
AssistantCalls(calls) == [role |-> "assistant", content |-> None, tool_calls |-> calls]
ToolTurnIn(text) == [role |-> "tool", content |-> text, tool_calls |-> <<>>]

ReadyResult(token) ==
    [status |-> "ready", jwtToken |-> token,
     message |-> SessionMessage(EmptyDict), _continue_chaining |-> TRUE]

PriorSchedule ==
    AssistantCalls(<<ToolCall("call_p1", "schedule_event",
                     ArgsText([title |-> "Deposition", startTime |-> StartA]))>>)
PriorInit ==
    AssistantCalls(<<ToolCall("call_p0", "initialize_calendar_session",
                     ArgsText([tenant_id |-> "t1"]))>>)

\* a finished earlier exchange, as a caller resubmits it
HistoryPrior ==
    << UserTurn("the title is 'Hearing' please"),
       PriorInit,
       ToolTurnIn(json_dumps(ReadyResult("tok-old"))),
       AssistantText("You are connected.") >>

\* the same exchange cut off after two unanswered assistant proposals
HistoryDangling == HistoryPrior \o <<PriorSchedule, PriorSchedule>>

\* an exchange whose oldest turn is longer than the sanitizer's limit
HistoryLong ==
    << UserTurn(Repeat("x", DefaultMaxContentLength + 500)) >> \o HistoryPrior

\* an earlier exchange in which a titled schedule_event was proposed and
\* answered, and nothing after it speaks of a title
HistoryBooked ==
    << UserTurn("book the deposition"),
       PriorSchedule,
       ToolTurnIn(json_dumps([status |-> "error",
                              message |-> "CONFLICT: There is already an event at "
                                 \o StartA \o ". Suggest a different time to the user."])),
       AssistantText("That slot is taken.") >>

Histories == {<<>>, HistoryPrior, HistoryDangling, HistoryLong}

\* the request headers a scenario sends; a header left out is not a key
HeadersOf(s) ==
    IF s = "intake"
    THEN { [x \in {} |-> ""],
           [X_Tenant_ID |-> ""],
           [X_Tenant_ID |-> "t1"],
           [X_Tenant_ID |-> "t1", User_Role |-> "VIEWER", X_User_Timezone |-> "Africa/Nairobi"] }
    ELSE IF s = "delete"
    THEN { [X_Tenant_ID |-> "t1", User_Role |-> "Admin"],
           [X_Tenant_ID |-> "t1", User_Role |-> "viewer"],
           [X_Tenant_ID |-> "t1"] }
    ELSE IF s = "retitle"
    THEN { [X_Tenant_ID |-> "t1"],
           [X_Tenant_ID |-> "t1", User_Role |-> "viewer"] }
    ELSE { [X_Tenant_ID |-> "t1"] }

PromptsOf(s) == IF s = "intake" THEN {"hello", " Clear "} ELSE {"go ahead"}

HistoriesOf(s) ==
    IF s \in {"intake", "schedule"} THEN Histories
    ELSE IF s = "session" THEN {<<>>, HistoryPrior}
    ELSE IF s \in {"retitle", "window"} THEN {<<>>, HistoryBooked}
    ELSE {<<>>}

\* what the model may answer in one round: [content, calls], the calls as
\* <<name, arguments>> pairs (the ids are given at the consultation)
Say(text) == [content |-> text, calls |-> <<>>]
Propose(content, calls) == [content |-> content, calls |-> calls]

ModelReplies(s) ==
    {Say("Done.")} \cup
    (IF s = "delete"
     THEN { Propose(None, <<<<"delete_event", ArgsText([event_id |-> "e1", confirmed |-> TRUE])>>>>),
            Propose(None, <<<<"delete_event", ArgsText([event_id |-> "e1", confirmed |-> FALSE])>>>>),
            Propose("Deleting.", <<<<"delete_event", ArgsText([event_id |-> "e1"])>>>>) }
     ELSE IF s = "schedule"
     THEN { Propose(None, <<<<"schedule_event", ArgsText([title |-> "Motion", startTime |-> StartA])>>>>),
            Propose("Booking.", <<<<"schedule_event", ArgsText([summary |-> "", startTime |-> StartA])>>,
                                  <<"get_all_events", ArgsText(EmptyDict)>>>>) }
     ELSE IF s = "flaky"
     THEN { Propose(None, <<<<"get_all_events", ArgsText(EmptyDict)>>>>) }
     ELSE IF s = "malformed"
     THEN { Propose(None, <<<<"get_all_events", InvalidJson>>>>),
            Propose(None, <<<<"delete_event", NonObjectJson>>,
                            <<"summon_clerk", ArgsText(EmptyDict)>>>>),
            Propose(None, <<<<"initialize_calendar_session", NonObjectJson>>>>),
            Propose(None, <<<<"schedule_event", ArgsText([title |-> "Motion", startTime |-> "tomorrow"])>>,
                            <<"get_event_by_id", ArgsText([event_id |-> "e1"])>>>>) }
     ELSE IF s = "session"
     THEN { Propose(None, <<<<"initialize_calendar_session", ArgsText(EmptyDict)>>,
                            <<"initialize_calendar_session", ArgsText([tenant_id |-> ""])>>>>),
            Propose(None, <<<<"initialize_calendar_session", ArgsText([tenant_id |-> "t2"])>>,
                            <<"update_event", ArgsText([event_id |-> "e1", summary |-> "Moved"])>>>>) }
     ELSE IF s = "retitle"
     THEN { Propose(None, <<<<"schedule_event", ArgsText([title |-> "", startTime |-> StartA])>>,
                            <<"schedule_event", ArgsText([title |-> "Unknown", startTime |-> StartA])>>>>),
            Propose(None, <<<<"schedule_event", ArgsText([startTime |-> StartA])>>,
                            <<"get_event_by_id", ArgsText([event_id |-> "e1"])>>,
                            <<"check_calendar_connection", ArgsText(EmptyDict)>>>>),
            Propose(None, <<<<"schedule_event", ArgsText([summary |-> "Fresh", startTime |-> StartA])>>,
                            <<"get_system_status", ArgsText(EmptyDict)>>>>),
            Propose(None, <<<<"schedule_event", ArgsText([title |-> "Fresh", startTime |-> StartA])>>,
                            <<"schedule_event", ArgsText([title |-> "string", startTime |-> StartA])>>>>) }
     ELSE IF s = "window"
     THEN { Propose(None, <<<<"schedule_event", ArgsText([title |-> "Motion", startTime |-> StartA])>>>>),
            Propose(None, <<<<"schedule_event", ArgsText([title |-> "Motion", startTime |-> StartA,
                                                          duration_minutes |-> "30"])>>,
                            <<"update_event", ArgsText([event_id |-> "e1", startTime |-> "next week"])>>,
                            <<"schedule_event", ArgsText([title |-> "Motion", startTime |-> "tomorrow"])>>>>),
            Propose(None, <<<<"schedule_event", ArgsText([title |-> "Hearing"])>>>>) }
     ELSE IF s = "pair_a"
     THEN { Propose(None, <<<<"initialize_calendar_session", ArgsText(EmptyDict)>>,
                            <<"schedule_event", ArgsText([startTime |-> StartA])>>>>) }
     ELSE IF s = "pair_b"
     THEN { Propose(None, <<<<"schedule_event", ArgsText([title |-> "Motion", startTime |-> StartB])>>,
                            <<"schedule_event", ArgsText([title |-> "", startTime |-> StartB])>>>>) }
     ELSE {})

Reply(status_code, token_text, is_json, body) ==
    [status_code |-> status_code, token_text |-> token_text,
     is_json |-> is_json, body |-> body]

Net(failures, reply) == [failures |-> failures, reply |-> reply]

OkBody(name) ==
    IF name = "schedule_event" THEN [status |-> "created", id |-> "ev-9"]
    ELSE IF name = "update_event" THEN [status |-> "updated", id |-> "e1"]
    ELSE IF name = "delete_event" THEN [status |-> "deleted"]
    ELSE [status |-> "ok", message |-> "2 events"]

\* what the network does to the conflict check of a schedule_event
ConflictNets(s) ==
    IF s = "schedule"
    THEN { Net(0, Reply("200", FALSE, TRUE, [hasConflict |-> TRUE])),
           Net(0, Reply("200", FALSE, TRUE, [hasConflict |-> FALSE])) }
    ELSE IF s = "window"
    THEN { Net(0, Reply("200", FALSE, TRUE, [hasConflict |-> FALSE])),
           Net(MaxFailures, Reply("200", FALSE, TRUE, [hasConflict |-> FALSE])) }
    ELSE { Net(0, Reply("200", FALSE, TRUE, [hasConflict |-> FALSE])) }

\* what the network does to the call a handler issues for tool "name"
DispatchNets(s, name) ==
    IF s = "flaky"
    THEN { Net(f, Reply("200", FALSE, TRUE, OkBody(name))) : f \in 0..MaxFailures }
            \cup { Net(0, Reply("401", TRUE, TRUE, [error |-> "jwt token expired"])),
                   Net(1, Reply("502", FALSE, FALSE, EmptyDict)) }
    ELSE IF name = "initialize_calendar_session"
    THEN { Net(0, Reply("200", FALSE, TRUE, [status |-> "ready", jwtToken |-> "tok-new"])),
           Net(0, Reply("200", FALSE, TRUE, [status |-> "pending"])) }
    ELSE { Net(0, Reply("200", FALSE, TRUE, OkBody(name))) }

(***************************************************************************)
(* src/src/main.py: verify_tenant_access                                   *)
(***************************************************************************)
UpperAlpha == "ABCDEFGHIJKLMNOPQRSTUVWXYZ"
LowerAlpha == "abcdefghijklmnopqrstuvwxyz"

\* str.lower()
RECURSIVE Lower(_)
Lower(s) ==
    IF Len(s) = 0 THEN ""
    ELSE LET c == Char(s, 1)
             at == {n \in 1..26 : Char(UpperAlpha, n) = c}
         IN  (IF at = {} THEN c ELSE Char(LowerAlpha, CHOOSE n \in at : TRUE))
                \o Lower(SubSeq(s, 2, Len(s)))

\* str.strip()
Strip(s) ==
    LET lead == RunIn(s, 1, Whitespace)
        last == CHOOSE n \in 0..Len(s) :
                    /\ n = 0 \/ Char(s, n) \notin Whitespace
                    /\ \A m \in (n + 1)..Len(s) : Char(s, m) \in Whitespace
    IN  IF lead >= Len(s) THEN "" ELSE SubSeq(s, lead + 1, last)

\* the dependency's result if the two optional headers had no defaults
VerifiedAuthNoDefaults(hdrs) ==
    [tenant_id |-> hdrs.X_Tenant_ID,
     role |-> IF "User_Role" \in DOMAIN hdrs THEN Lower(hdrs.User_Role) ELSE None,
     timezone |-> IF "X_User_Timezone" \in DOMAIN hdrs THEN hdrs.X_User_Timezone ELSE None]

\* the dependency's result: x_tenant_id is required (Header(...)), the other
\* two headers have defaults
VerifiedAuth(hdrs) ==
    [tenant_id |-> hdrs.X_Tenant_ID,
     role |-> Lower(IF "User_Role" \in DOMAIN hdrs THEN hdrs.User_Role ELSE "Associate"),
     timezone |-> IF "X_User_Timezone" \in DOMAIN hdrs THEN hdrs.X_User_Timezone ELSE "UTC"]

NoAuth == [tenant_id |-> None, role |-> None, timezone |-> None]

(***************************************************************************)
(* src/src/main.py: handle_agent_query, lines 200-242                      *)
(***************************************************************************)
IsDangling(msg) == msg.role = "assistant" /\ HasToolCalls(msg)

\* an "if" in place of the "while" of line 208: one pop at most
RepairHistoryOnce(history) ==
    IF history # <<>> /\ IsDangling(history[Len(history)])
    THEN SubSeq(history, 1, Len(history) - 1)
    ELSE history

\* lines 208-210: pop while the last turn is an assistant turn with tool calls
RECURSIVE RepairHistory(_)
RepairHistory(history) ==
    IF history # <<>> /\ IsDangling(history[Len(history)])
    THEN RepairHistory(SubSeq(history, 1, Len(history) - 1))
    ELSE history

\* lines 220-225 for one earlier tool call
LockFromCall(locked, text) ==
    LET p_args == json_loads(text).value
        l1 == IF Truthy(Get(p_args, "title"))
              THEN [locked EXCEPT !.title = p_args.title] ELSE locked
    IN  IF json_loads(text).raised \/ ~json_loads(text).is_dict THEN locked
        ELSE IF Truthy(Get(p_args, "startTime"))
             THEN [l1 EXCEPT !.startTime = p_args.startTime] ELSE l1

RECURSIVE LockFromCalls(_, _)
LockFromCalls(locked, calls) ==
    IF calls = <<>> THEN locked
    ELSE LockFromCalls(LockFromCall(locked, Head(calls).arguments), Tail(calls))

\* lines 215-225 for one turn
LockFromTurn(locked, msg) ==
    LET content == IF Truthy(Get(msg, "content")) THEN msg.content ELSE ""
        l1 == IF LockSearch(content).ok
              THEN [locked EXCEPT !.title = LockSearch(content).group1] ELSE locked
    IN  IF HasToolCalls(msg) THEN LockFromCalls(l1, msg.tool_calls) ELSE l1

\* a scan in which a field found in an older turn replaces the newer one
RECURSIVE LockInOldestWins(_, _)
LockInOldestWins(locked, history) ==
    IF history = <<>> THEN locked
    ELSE LockFromTurn(LockInOldestWins(locked, Tail(history)), Head(history))

\* lines 213-225: the turns oldest first
RECURSIVE LockIn(_, _)
LockIn(locked, history) ==
    IF history = <<>> THEN locked
    ELSE LockIn(LockFromTurn(locked, Head(history)), Tail(history))

\* position of the first occurrence of sub in s, 0 when there is none
Find(s, sub) ==
    LET at == {p \in 1..(Len(s) - Len(sub) + 1) : SubSeq(s, p, p + Len(sub) - 1) = sub} IN
    IF at = {} THEN 0 ELSE CHOOSE p \in at : \A o \in at : p <= o

\* json.loads(content).get("jwtToken") on a content that holds '"jwtToken":'.
\* A content is a JSON text when it is a whole dumped object; the member's
\* value is the text between the quotes that follow the key.
TokenOf(content) ==
    LET key == "\"jwtToken\": \""
        from == Find(content, key) + Len(key)
    IN  IF Len(content) >= 2 /\ Char(content, 1) = "{" /\ EndsWith(content, "}")
             /\ Find(content, key) > 0
        THEN [raised |-> FALSE,
              token |-> SubSeq(content, from, from + RunNotIn(content, from, {"\""}) - 1)]
        ELSE [raised |-> TRUE, token |-> ""]

\* lines 228-234: newest first, stop at the first content that yields a token
RECURSIVE RecoverSession(_, _)
RecoverSession(hdrs, msgs) ==
    IF msgs = <<>> THEN hdrs
    ELSE LET content == IF Truthy(Get(Head(msgs), "content")) THEN Head(msgs).content ELSE "" IN
         IF Find(content, "\"jwtToken\":") > 0 /\ ~TokenOf(content).raised
         THEN set_auth_token(hdrs, TokenOf(content).token)
         ELSE RecoverSession(hdrs, Tail(msgs))

\* get_legal_system_prompt(tenant_id, user_role)
SystemPrompt(tenant_id, user_role) ==
    "ROLE: You are an elite Legal AI Operations Assistant. Current Tenant: "
        \o tenant_id \o " User Authorization: " \o user_role

\* the correlation id the middleware attached to the request
CorrelationId == "corr-1"

\* CalendarServiceClient.__init__
ClientHeaders(tenant_id, correlation_id) ==
    [X_Tenant_ID |-> tenant_id, X_Correlation_ID |-> correlation_id]

NoLock == [title |-> None, startTime |-> None]

\* lines 237-239
InitialMessages(tenant_id, user_role, history, prompt) ==
    << [role |-> "system", content |-> SystemPrompt(tenant_id, user_role)] >>
        \o sanitize_history(history, DefaultMaxContentLength, DefaultKeepLastN)
        \o << [role |-> "user", content |-> prompt] >>

(***************************************************************************)
(* src/src/main.py: handle_agent_query, the agentic loop (lines 246-317)   *)
(***************************************************************************)
\* for i in range(5)
MaxRounds == 5

\* datetime.now(timezone.utc).strftime("%I:%M %p UTC") of the round
NowUtc == "07:00 AM UTC"

\* line 248
LockStr(locked) ==
    LET t == IF Truthy(locked.title) THEN "title: " \o locked.title ELSE ""
        st == IF Truthy(locked.startTime) THEN "startTime: " \o locked.startTime ELSE ""
    IN  IF t # "" /\ st # "" THEN t \o ", " \o st ELSE t \o st

\* lines 250-253
StateInjection(last, locked, user_tz) ==
    [role |-> "system",
     content |-> "STATE: " \o last \o " | NOW (UTC): " \o NowUtc
        \o " | LOCKED_PARAMETERS: " \o (IF LockStr(locked) # "" THEN LockStr(locked) ELSE "None")
        \o ". DO NOT ask for items in LOCKED_PARAMETERS. | Note: If user says 'tomorrow', calculate based on "
        \o user_tz \o "."]

\* a splice that puts the status turn last instead of after the policy turn
LoopMessagesStatusLast(msgs, injection) ==
    IF msgs[Len(msgs)].role = "assistant" /\ HasToolCalls(msgs[Len(msgs)])
    THEN msgs
    ELSE Append(msgs, injection)

\* lines 255-258
LoopMessages(msgs, injection) ==
    IF msgs[Len(msgs)].role = "assistant" /\ HasToolCalls(msgs[Len(msgs)])
    THEN msgs
    ELSE <<msgs[1]>> \o <<injection>> \o SubSeq(msgs, 2, Len(msgs))

\* lines 269-275 for one proposed call
IsPlaceholder(title) == Lower(title) \in {"unknown", "string", ""}

\* the loop without the injection of lines 267-275
InjectTitleNever(call, locked) == call

InjectTitle(call, locked) ==
    LET parsed == json_loads(call.arguments)
        title == Get(parsed.value, "title")
    IN  IF call.name = "schedule_event" /\ ~parsed.raised /\ parsed.is_dict
             /\ (~Truthy(title) \/ IsPlaceholder(title))
             /\ Truthy(locked.title)
        THEN [call EXCEPT !.arguments = ArgsText(Put(parsed.value, "title", locked.title))]
        ELSE call

\* the calls of the model's reply with their ids, after lines 267-275
ProposedCalls(round, calls, locked) ==
    [n \in 1..Len(calls) |->
        InjectTitle(ToolCall("call_" \o ToString(round) \o "_" \o ToString(n),
                             calls[n][1], calls[n][2]),
                    locked)]

\* the model's reply before lines 267-275 touch it: each call as the model
\* wrote it, with the id it has in the conversation and the locked
\* parameters of the round
Proposals(round, calls, locked) ==
    [n \in 1..Len(calls) |->
        [id |-> "call_" \o ToString(round) \o "_" \o ToString(n),
         name |-> calls[n][1], arguments |-> calls[n][2], locked |-> locked]]

\* line 277: model_dump(exclude_none=True)
AssistantDict(content, calls) ==
    LET base == [role |-> "assistant"]
        c == IF content # None THEN Put(base, "content", content) ELSE base
    IN  IF calls # <<>> THEN Put(c, "tool_calls", calls) ELSE c

\* lines 298 and 306
ToolTurn(call, result) ==
    [role |-> "tool", tool_call_id |-> call.id, name |-> call.name,
     content |-> json_dumps(result)]

\* the returned mapping with the whole turn list as its history
ResponseWholeList(text, msgs) ==
    [kind |-> "response", response |-> text, history |-> msgs]

\* lines 281 and 317
Response(text, msgs) ==
    [kind |-> "response", response |-> text, history |-> SubSeq(msgs, 2, Len(msgs))]

\* the interception without the "continue" of line 300: the conflict check
\* is issued and its answer ignored
InterceptionNeverBlocks(call, hdrs, tenant_id, net) ==
    LET parsed == json_loads(call.arguments)
        args == parsed.value
        start == Get(args, "startTime")
        duration == IF "duration" \in DOMAIN args THEN args.duration ELSE "60"
        end == IF AllDigits(duration)
               THEN calculate_end_time(start, ParseNat(duration)) ELSE None
        checked == /\ call.name = "schedule_event"
                   /\ ~parsed.raised /\ parsed.is_dict
                   /\ Truthy(start) /\ Truthy(end)
    IN  [checked |-> checked,
         blocked |-> FALSE,
         calls |-> IF checked
                   THEN <<check_conflicts(start, end, hdrs, tenant_id, net).call>>
                   ELSE <<>>,
         result |-> EmptyDict]

\* lines 286-300: the interception of a schedule_event.  checked: the
\* conflict check was issued; blocked: it returned True
Interception(call, hdrs, tenant_id, net) ==
    LET parsed == json_loads(call.arguments)
        args == parsed.value
        start == Get(args, "startTime")
        duration == IF "duration" \in DOMAIN args THEN args.duration ELSE "60"
        end == IF AllDigits(duration)
               THEN calculate_end_time(start, ParseNat(duration)) ELSE None
        checked == /\ call.name = "schedule_event"
                   /\ ~parsed.raised /\ parsed.is_dict
                   /\ Truthy(start) /\ Truthy(end)
    IN  [checked |-> checked,
         blocked |-> checked /\ check_conflicts(start, end, hdrs, tenant_id, net).value,
         calls |-> IF checked
                   THEN <<check_conflicts(start, end, hdrs, tenant_id, net).call>>
                   ELSE <<>>,
         result |-> [status |-> "error",
                     message |-> "CONFLICT: There is already an event at " \o FStr(start)
                        \o ". Suggest a different time to the user."]]

\* lines 308-312
LockAfter(call, locked) ==
    LET parsed == json_loads(call.arguments) IN
    IF call.name = "schedule_event" /\ ~parsed.raised /\ parsed.is_dict
         /\ Truthy(Get(parsed.value, "title"))
    THEN [locked EXCEPT !.title = parsed.value.title]
    ELSE locked

\* lines 314-315
LastActionAfter(call, result, last) ==
    IF Get(result, "status") = "ready" \/ "_continue_chaining" \in DOMAIN result
    THEN "System Ready after " \o call.name
    ELSE last

(***************************************************************************)
(* The request as a state machine                                          *)
(***************************************************************************)
NoOutcome == [kind |-> "none"]

\* no second request is in flight
NoPeer == [pc |-> "none"]

IdleSanitizer ==
    /\ san_in = <<>>
    /\ san_max = DefaultMaxContentLength
    /\ san_keep = DefaultKeepLastN
    /\ san_outs = <<>>

\* a request at position p with nothing done yet
Fresh(p, s, hdrs, prompt, history) ==
    /\ scenario = s
    /\ inbound = [headers |-> hdrs, prompt |-> prompt, history |-> history]
    /\ pc = p
    /\ auth = NoAuth
    /\ cleaned_history = <<>>
    /\ locked_params = NoLock
    /\ headers = EmptyDict
    /\ messages = <<>>
    /\ last_action = "Waiting for input"
    /\ i = 0
    /\ tool_calls = <<>>
    /\ k = 0
    /\ loop_messages = <<>>
    /\ consults = 0
    /\ proposed = <<>>
    /\ backend = <<>>
    /\ outcome = NoOutcome

Init ==
    /\ \E s \in Scenarios : \E hdrs \in HeadersOf(s) :
       \E prompt \in PromptsOf(s) : \E history \in HistoriesOf(s) :
            Fresh("received", s, hdrs, prompt, history)
    /\ IdleSanitizer
    /\ peer = NoPeer

\* FastAPI resolves Depends(verify_tenant_access): a missing X-Tenant-ID is
\* a 422 of the framework, an empty one the 401 of line 90
VerifyTenantAccess ==
    /\ pc = "received"
    /\ IF "X_Tenant_ID" \notin DOMAIN inbound.headers
       THEN /\ pc' = "rejected"
            /\ outcome' = [kind |-> "http_error", status |-> "422"]
            /\ auth' = auth
       ELSE IF inbound.headers.X_Tenant_ID = ""
       THEN /\ pc' = "rejected"
            /\ outcome' = [kind |-> "http_error", status |-> "401"]
            /\ auth' = auth
       ELSE /\ pc' = "verified"
            /\ outcome' = outcome
            /\ auth' = VerifiedAuth(inbound.headers)
    /\ UNCHANGED <<scenario, inbound, cleaned_history, locked_params, headers,
                   messages, last_action, i, tool_calls, k, loop_messages,
                   consults, proposed, backend>>
    /\ UNCHANGED sanVars
    /\ UNCHANGED peer

\* lines 200-242
StartRequest ==
    /\ pc = "verified"
    /\ IF Strip(Lower(inbound.prompt)) \in {"clear", "reset", "/clear"}
       THEN /\ pc' = "response_ready"
            /\ outcome' = [kind |-> "response",
                           response |-> "Conversation history cleared.",
                           history |-> <<>>]
            /\ UNCHANGED <<cleaned_history, locked_params, headers, messages>>
       ELSE LET cleaned == RepairHistory(inbound.history) IN
            /\ cleaned_history' = cleaned
            /\ locked_params' = LockIn(NoLock, cleaned)
            /\ headers' = RecoverSession(ClientHeaders(auth.tenant_id, CorrelationId),
                                         Reversed(cleaned))
            /\ messages' = InitialMessages(auth.tenant_id, auth.role, cleaned,
                                           inbound.prompt)
            /\ pc' = "awaiting_model"
            /\ outcome' = outcome
    /\ UNCHANGED <<scenario, inbound, auth, last_action, i, tool_calls, k,
                   loop_messages, consults, proposed, backend>>
    /\ UNCHANGED sanVars
    /\ UNCHANGED peer

\* lines 247-281: one consultation of the model and what follows it up to
\* the first tool call
ConsultModel ==
    /\ pc = "awaiting_model"
    /\ i < MaxRounds
    /\ \E reply \in ModelReplies(scenario) :
        LET calls == ProposedCalls(i, reply.calls, locked_params)
            msgs == Append(messages, AssistantDict(reply.content, calls))
        IN  /\ loop_messages' = LoopMessages(messages,
                    StateInjection(last_action, locked_params, auth.timezone))
            /\ consults' = consults + 1
            /\ proposed' = proposed \o Proposals(i, reply.calls, locked_params)
            /\ messages' = msgs
            /\ tool_calls' = calls
            /\ IF calls = <<>>
               THEN /\ pc' = "response_ready"
                    /\ outcome' = Response(reply.content, msgs)
                    /\ k' = k
               ELSE /\ pc' = "executing"
                    /\ outcome' = outcome
                    /\ k' = 1
    /\ UNCHANGED <<scenario, inbound, auth, cleaned_history, locked_params,
                   headers, last_action, i, backend>>
    /\ UNCHANGED sanVars
    /\ UNCHANGED peer

\* the end of one pass of "for tool_call in assistant_msg.tool_calls": the
\* next call, the next round, or line 317 when the rounds are used up
Advance(msgs) ==
    IF k < Len(tool_calls)
    THEN /\ k' = k + 1 /\ i' = i /\ pc' = "executing" /\ outcome' = outcome
    ELSE /\ k' = 0
         /\ i' = i + 1
         /\ IF i + 1 < MaxRounds
            THEN /\ pc' = "awaiting_model" /\ outcome' = outcome
            ELSE /\ pc' = "response_ready"
                 /\ outcome' = Response(Get(msgs[Len(msgs)], "content"), msgs)

\* the calls issued while the tool call with this id was processed
IssuedFor(calls, id) == [n \in 1..Len(calls) |-> [calls[n] EXCEPT !.for = id]]

\* lines 284-315 for the tool call at k
ExecuteToolCall ==
    /\ pc = "executing"
    /\ \E cnet \in ConflictNets(scenario) :
       \E net \in DispatchNets(scenario, tool_calls[k].name) :
        LET call == tool_calls[k]
            icpt == Interception(call, headers, auth.tenant_id, cnet)
            exec == execute_tool_call(call, headers, auth.role, auth.tenant_id,
                                      cleaned_history, net)
        IN  IF icpt.blocked
            THEN /\ messages' = Append(messages, ToolTurn(call, icpt.result))
                 /\ last_action' = "Blocked by scheduling conflict"
                 /\ backend' = backend \o IssuedFor(icpt.calls, call.id)
                 /\ Advance(Append(messages, ToolTurn(call, icpt.result)))
                 /\ UNCHANGED <<locked_params, headers>>
            ELSE IF exec.raised
            THEN /\ pc' = "failed"
                 /\ outcome' = [kind |-> "exception"]
                 /\ backend' = backend \o IssuedFor(icpt.calls \o exec.calls, call.id)
                 /\ UNCHANGED <<messages, last_action, locked_params, headers, i, k>>
            ELSE /\ messages' = Append(messages, ToolTurn(call, exec.result))
                 /\ locked_params' = LockAfter(call, locked_params)
                 /\ last_action' = LastActionAfter(call, exec.result, last_action)
                 /\ headers' = exec.headers
                 /\ backend' = backend \o IssuedFor(icpt.calls \o exec.calls, call.id)
                 /\ Advance(Append(messages, ToolTurn(call, exec.result)))
    /\ UNCHANGED <<scenario, inbound, auth, cleaned_history, tool_calls,
                   loop_messages, consults, proposed>>
    /\ UNCHANGED sanVars
    /\ UNCHANGED peer

Next ==
    \/ VerifyTenantAccess
    \/ StartRequest
    \/ ConsultModel
    \/ ExecuteToolCall

Spec == Init /\ [][Next]_vars

(***************************************************************************)
(* The submitted history on its own: every history of up to MaxHistoryLen  *)
(* turns goes through lines 200-242                                        *)
(***************************************************************************)
PrologueTurns ==
    { UserTurn("the subject is 'Hearing'"),
      AssistantText("Noted."),
      PriorSchedule,
      [role |-> "assistant", content |-> "Let me book that.",
       tool_calls |-> <<ToolCall("call_p2", "get_all_events", ArgsText(EmptyDict))>>],
      ToolTurnIn(json_dumps(ReadyResult("tok-old"))),
      ToolTurnIn(json_dumps(ReadyResult("tok-older"))),
      UserTurn("{\"jwtToken\": \"tok-user\"}"),
      AssistantCalls(<<ToolCall("call_p3", "schedule_event",
                         ArgsText([title |-> "First", startTime |-> StartA])),
                       ToolCall("call_p4", "update_event",
                         ArgsText([event_id |-> "e1", title |-> "Second",
                                   startTime |-> StartB]))>>) }

RECURSIVE SeqsUpTo(_, _)
SeqsUpTo(S, n) ==
    IF n = 0 THEN {<<>>}
    ELSE SeqsUpTo(S, n - 1)
           \cup {Append(h, t) : h \in {g \in SeqsUpTo(S, n - 1) : Len(g) = n - 1}, t \in S}

InitPrologue ==
    /\ \E history \in SeqsUpTo(PrologueTurns, MaxHistoryLen) :
            Fresh("received", "prologue", [X_Tenant_ID |-> "t1"], "go ahead", history)
    /\ IdleSanitizer
    /\ peer = NoPeer

NextPrologue ==
    \/ VerifyTenantAccess
    \/ StartRequest

PrologueSpec == InitPrologue /\ [][NextPrologue]_vars

(***************************************************************************)
(* Two requests handled by interleaved tasks.  Everything handle_agent_query*)
(* works on is a local of the call or an object it constructs (line 205:   *)
(* the service client with its own headers dict; 213: locked_params; 237:  *)
(* messages); the pooled HTTP client and the settings are the only objects  *)
(* both tasks reach, and the handler writes to neither.  The task that is   *)
(* not running keeps its locals in "peer".                                  *)
(***************************************************************************)
\* the locals of the running task
TaskLocals ==
    [scenario |-> scenario, inbound |-> inbound, pc |-> pc, auth |-> auth,
     cleaned_history |-> cleaned_history, locked_params |-> locked_params,
     headers |-> headers, messages |-> messages, last_action |-> last_action,
     i |-> i, tool_calls |-> tool_calls, k |-> k, loop_messages |-> loop_messages,
     consults |-> consults, proposed |-> proposed, backend |-> backend,
     outcome |-> outcome]

\* the locals of a request at position p with nothing done yet
FreshTask(p, s, hdrs, prompt, history) ==
    [scenario |-> s,
     inbound |-> [headers |-> hdrs, prompt |-> prompt, history |-> history],
     pc |-> p, auth |-> NoAuth, cleaned_history |-> <<>>, locked_params |-> NoLock,
     headers |-> EmptyDict, messages |-> <<>>, last_action |-> "Waiting for input",
     i |-> 0, tool_calls |-> <<>>, k |-> 0, loop_messages |-> <<>>, consults |-> 0,
     proposed |-> <<>>, backend |-> <<>>, outcome |-> NoOutcome]

\* one headers dict for the whole process instead of one per client
ResumedClientShared(own, running) == running

\* CalendarServiceClient.__init__ gives each request's client a headers dict
\* of its own: a task that resumes finds the dict it left, whatever the task
\* that ran meanwhile did to its own
ResumedClient(own, running) == own

InitPair ==
    /\ Fresh("received", "pair_a", [X_Tenant_ID |-> "t1"], "go ahead", <<>>)
    /\ IdleSanitizer
    /\ peer = FreshTask("received", "pair_b", [X_Tenant_ID |-> "t2"], "go ahead", <<>>)

\* the running task is suspended at an await (or has returned) and the event
\* loop resumes the other one
Yield ==
    /\ peer.pc \in {"received", "verified", "awaiting_model", "executing"}
    /\ peer' = TaskLocals
    /\ scenario' = peer.scenario
    /\ inbound' = peer.inbound
    /\ pc' = peer.pc
    /\ auth' = peer.auth
    /\ cleaned_history' = peer.cleaned_history
    /\ locked_params' = peer.locked_params
    /\ headers' = ResumedClient(peer.headers, headers)
    /\ messages' = peer.messages
    /\ last_action' = peer.last_action
    /\ i' = peer.i
    /\ tool_calls' = peer.tool_calls
    /\ k' = peer.k
    /\ loop_messages' = peer.loop_messages
    /\ consults' = peer.consults
    /\ proposed' = peer.proposed
    /\ backend' = peer.backend
    /\ outcome' = peer.outcome
    /\ UNCHANGED sanVars

NextPair ==
    \/ VerifyTenantAccess
    \/ StartRequest
    \/ ConsultModel
    \/ ExecuteToolCall
    \/ Yield

PairSpec == InitPair /\ [][NextPair]_vars

(***************************************************************************)
(* sanitize_history on its own: applied to a history, then to its own      *)
(* result                                                                  *)
(***************************************************************************)
\* a max_content_length shorter than the truncation marker
ShortMaxContentLength == 30

\* how many times in a row the sanitizer is applied
MaxApplications == 2

SanitizeTurns ==
    { UserTurn("short"),
      AssistantText(Repeat("x", DefaultMaxContentLength)),
      [role |-> "assistant", content |-> Repeat("y", DefaultMaxContentLength + 26),
       tool_calls |-> <<ToolCall("call_p2", "get_all_events", ArgsText(EmptyDict))>>],
      ToolTurnIn(Repeat("z", DefaultMaxContentLength + 500)),
      AssistantCalls(<<ToolCall("call_p3", "get_all_events", ArgsText(EmptyDict))>>) }

InitSanitize ==
    /\ Fresh("idle", "sanitize", EmptyDict, "", <<>>)
    /\ san_in \in SeqsUpTo(SanitizeTurns, MaxSanitizeLen)
    /\ san_max \in {DefaultMaxContentLength, ShortMaxContentLength}
    /\ san_keep \in {DefaultKeepLastN, 1}
    /\ san_outs = <<>>
    /\ peer = NoPeer

ApplySanitize ==
    /\ Len(san_outs) < MaxApplications
    /\ san_outs' = Append(san_outs,
                          sanitize_history(IF san_outs = <<>> THEN san_in
                                           ELSE san_outs[Len(san_outs)],
                                           san_max, san_keep))
    /\ UNCHANGED <<san_in, san_max, san_keep>>
    /\ UNCHANGED reqVars
    /\ UNCHANGED peer

NextSanitize == ApplySanitize

SanitizeSpec == InitSanitize /\ [][NextSanitize]_vars

(***************************************************************************)
(* Properties of a request                                                 *)
(***************************************************************************)
\* positions in messages of the turns the loop appended (after the system
\* prompt, the sanitized history and the user's prompt)
LoopTurns == {n \in 1..Len(messages) : n > Len(cleaned_history) + 2}

\* the assistant turns of the loop that propose actions
ProposingTurns ==
    {n \in LoopTurns : messages[n].role = "assistant"
                         /\ "tool_calls" \in DOMAIN messages[n]}

\* every action the model proposed in the loop
ProposedInLoop ==
    UNION { {messages[n].tool_calls[j] : j \in DOMAIN messages[n].tool_calls}
            : n \in ProposingTurns }

\* positions of the tool-result turns carrying this correlation id
ToolTurnsFor(id) ==
    {n \in LoopTurns : messages[n].role = "tool" /\ messages[n].tool_call_id = id}

\* the proposed actions the loop has not finished with
Unprocessed ==
    IF pc \in {"executing", "failed"}
    THEN {tool_calls[j].id : j \in k..Len(tool_calls)}
    ELSE {}

\* a delete_event whose arguments are a JSON object (which may or may not
\* carry the confirmation flag)
IsDelete(c) == c.name = "delete_event" /\ c.arguments.json = "object"

Confirmed(c) ==
    "confirmed" \in DOMAIN c.arguments.value /\ c.arguments.value.confirmed = TRUE

UnauthorizedText ==
    json_dumps([error |-> "Unauthorized: Admin role required for deletion."])

\* the JSON text of a structured result whose first member is "error"
IsErrorText(text) == Len(text) >= 8 /\ SubSeq(text, 1, 8) = "{\"error\""

\* C1: under a role other than "admin" no DELETE call is ever issued to the
\* backend, and every delete_event action the loop has processed, whatever
\* its confirmation flag, has the Unauthorized result as its tool turn.
C1_NonAdminDeleteIsUnauthorized ==
    auth.role # "admin" =>
        /\ \A n \in DOMAIN backend : backend[n].method # "DELETE"
        /\ \A c \in ProposedInLoop :
              IsDelete(c) /\ c.id \notin Unprocessed =>
                  /\ ToolTurnsFor(c.id) # {}
                  /\ \A n \in ToolTurnsFor(c.id) : messages[n].content = UnauthorizedText

\* a viewer's delete_event with confirmed=true was answered Unauthorized
C1_ViewerConfirmedDeleteRejected ==
    /\ auth.role = "viewer"
    /\ \E c \in ProposedInLoop :
          /\ IsDelete(c) /\ Confirmed(c)
          /\ \E n \in ToolTurnsFor(c.id) : messages[n].content = UnauthorizedText

\* C2 (as the specification states it): every processed delete_event action
\* without confirmed=true is rejected with an error result, whatever the
\* role, and no DELETE call is issued to the backend for it.
C2_UnconfirmedDeleteIsRejected ==
    \A c \in ProposedInLoop :
        IsDelete(c) /\ ~Confirmed(c) /\ c.id \notin Unprocessed =>
            /\ \A n \in DOMAIN backend :
                  backend[n].for = c.id => backend[n].method # "DELETE"
            /\ \A n \in ToolTurnsFor(c.id) : IsErrorText(messages[n].content)

\* C3 (as the specification states it): whenever the loop is between rounds
\* or the request has ended, every assistant turn that proposed actions is
\* followed by exactly one tool turn per action, with the action's id, in
\* the order the actions were proposed.
C3_EveryProposedActionHasItsToolTurn ==
    pc \in {"awaiting_model", "response_ready", "failed"} =>
        \A n \in ProposingTurns :
            LET calls == messages[n].tool_calls IN
            /\ n + Len(calls) <= Len(messages)
            /\ \A j \in 1..Len(calls) :
                  /\ messages[n + j].role = "tool"
                  /\ messages[n + j].tool_call_id = calls[j].id
            /\ n + Len(calls) < Len(messages) =>
                  messages[n + Len(calls) + 1].role # "tool"

\* C4 (as the specification states it): once the tenant is validated, no
\* failure in processing a proposed action ends the request with an
\* unhandled error.
C4_NoUnhandledErrorPastValidation ==
    auth # NoAuth => outcome.kind # "exception" /\ pc # "failed"

\* the handler can take a step: the guards of VerifyTenantAccess,
\* StartRequest, ExecuteToolCall and ConsultModel
CanStep ==
    \/ pc \in {"received", "verified", "executing"}
    \/ pc = "awaiting_model" /\ i < MaxRounds

\* C5 (as the specification states it): the model is consulted at most
\* MaxRounds times, and a request never stops anywhere but at a rejection of
\* the tenant or at "response_ready".
C5_BoundedRoundsReachResponse ==
    /\ consults <= MaxRounds
    /\ pc \in {"rejected", "response_ready"} \/ CanStep

\* the last assistant turn of the conversation
LastAssistantTurn ==
    messages[CHOOSE n \in 1..Len(messages) :
                /\ messages[n].role = "assistant"
                /\ \A m \in n + 1..Len(messages) : messages[m].role # "assistant"]

\* C6 (as the specification states it): when the round cap is used up with
\* the last round still proposing actions, the response returned is the text
\* content of the last assistant turn.
C6_CapResponseIsLastAssistantText ==
    pc = "response_ready" /\ i = MaxRounds =>
        outcome.response = Get(LastAssistantTurn, "content")

\* a backend call that is the conflict check of the interception
IsConflictCheck(b) ==
    /\ b.method = "GET"
    /\ Len(b.path) >= 23
    /\ SubSeq(b.path, 1, 23) = "/events/check-conflicts"

\* ... and was answered hasConflict = true
ConflictFound(b) ==
    /\ IsConflictCheck(b)
    /\ "hasConflict" \in DOMAIN b.result
    /\ b.result.hasConflict = TRUE

ConflictText(start) ==
    json_dumps([status |-> "error",
                message |-> "CONFLICT: There is already an event at " \o start
                              \o ". Suggest a different time to the user."])

\* C7: for every schedule_event action whose conflict check returned true,
\* the action has exactly one tool turn and it is the conflict result; the
\* conflict check is the only backend call ever issued for the action (no
\* POST /events, no second dispatch); and every backend call is issued for
\* an action the model proposed, so a new attempt needs a new proposal.
C7_ConflictBlocksCreate ==
    /\ \A n \in DOMAIN backend :
          \E c \in ProposedInLoop : c.id = backend[n].for
    /\ \A n \in DOMAIN backend :
          ConflictFound(backend[n]) =>
              /\ \A m \in DOMAIN backend : backend[m].for = backend[n].for => m = n
              /\ \E c \in ProposedInLoop :
                    /\ c.id = backend[n].for
                    /\ c.name = "schedule_event"
                    /\ Cardinality(ToolTurnsFor(c.id)) = 1
                    /\ \A t \in ToolTurnsFor(c.id) :
                          messages[t].content = ConflictText(c.arguments.value.startTime)

\* a schedule_event was blocked by a conflict and, after a later proposal of
\* the model, another one was created
C7_BlockedThenProposedAgain ==
    \E n \in DOMAIN backend :
        /\ ConflictFound(backend[n])
        /\ \E m \in DOMAIN backend :
              /\ m > n
              /\ backend[m].method = "POST"
              /\ backend[m].path = "/events"
              /\ backend[m].for # backend[n].for

BackendUnavailable(result) ==
    "error" \in DOMAIN result /\ result.error = "system_offline"

C9_RepairDropsTrailingRun ==
    pc = "awaiting_model" /\ consults = 0 =>
        LET h == inbound.history
            c == cleaned_history
        IN  /\ Len(c) <= Len(h)
            /\ c = SubSeq(h, 1, Len(c))
            /\ \A n \in Len(c) + 1..Len(h) :
                  h[n].role = "assistant" /\ h[n].tool_calls # <<>>
            /\ c # <<>> =>
                  ~(c[Len(c)].role = "assistant" /\ c[Len(c)].tool_calls # <<>>)
            /\ Len(messages) = Len(c) + 2
            /\ \A n \in 1..Len(c) :
                  /\ messages[n + 1].role = c[n].role
                  /\ messages[n + 1].tool_calls = c[n].tool_calls

\* a history whose last two turns were dangling proposals was repaired and
\* something of it is left
C9_TwoTurnRunRemoved ==
    /\ pc = "awaiting_model"
    /\ cleaned_history # <<>>
    /\ Len(inbound.history) = Len(cleaned_history) + 2

(***************************************************************************)
(* Properties of sanitize_history (SanitizeSpec)                           *)
(***************************************************************************)
\* C10 (as the specification states it): sanitizing the result of a
\* sanitization with the same parameters gives that result again.
C10_SanitizeTwiceIsSanitizeOnce ==
    Len(san_outs) >= 2 => san_outs[2] = san_outs[1]

(***************************************************************************)
(* Properties of title repair                                              *)
(***************************************************************************)
\* the action with this id as the model wrote it
ProposalOf(id) ==
    proposed[CHOOSE n \in DOMAIN proposed : proposed[n].id = id]

\* position in the log of the proposed action with this id
ProposalIndex(id) == CHOOSE n \in DOMAIN proposed : proposed[n].id = id

\* the title of the arguments is absent, empty or a placeholder token
NeedsTitle(args) ==
    \/ ~Truthy(Get(args, "title"))
    \/ Lower(args.title) \in {"unknown", "string"}

\* the proposed actions of a history turn that carry a title
TitledCalls(msg) ==
    {j \in DOMAIN msg.tool_calls :
        /\ msg.tool_calls[j].arguments.json = "object"
        /\ Truthy(Get(msg.tool_calls[j].arguments.value, "title"))}

\* the text speaks of a title, a subject or a summary
MentionsTitle(text) ==
    \E q \in 1..Len(text) :
        WordAt(text, q, "title") \/ WordAt(text, q, "subject") \/ WordAt(text, q, "summary")

\* the repaired history holds a proposed action carrying title t, and no
\* later turn of it proposes or mentions a title
HistoryLocksTitle(t) ==
    \E n \in DOMAIN cleaned_history :
        /\ TitledCalls(cleaned_history[n]) # {}
        /\ LET last == CHOOSE j \in TitledCalls(cleaned_history[n]) :
                          \A o \in TitledCalls(cleaned_history[n]) : o <= j
           IN  cleaned_history[n].tool_calls[last].arguments.value.title = t
        /\ \A m \in n + 1..Len(cleaned_history) :
              /\ TitledCalls(cleaned_history[m]) = {}
              /\ ~MentionsTitle(cleaned_history[m].content)

IsCreate(b) == b.method = "POST" /\ b.path = "/events"

\* a schedule_event written with a title of its own came before this one
\* in the request
FreshTitleBefore(id) ==
    \E n \in 1..ProposalIndex(id) - 1 :
        /\ proposed[n].name = "schedule_event"
        /\ ~NeedsTitle(proposed[n].arguments.value)

\* C11: when the repaired history holds an earlier proposed action with a
\* title and no later title, every schedule_event the model writes with an
\* absent, empty or placeholder title (and before which the request saw no
\* schedule_event with a title of its own) is created at the backend under
\* the title of that earlier action.
C11_MissingTitleTakesLockedTitle ==
    \A t \in {"Deposition", "Hearing"} :
        HistoryLocksTitle(t) =>
            \A n \in DOMAIN backend :
                /\ IsCreate(backend[n])
                /\ NeedsTitle(ProposalOf(backend[n].for).arguments.value)
                /\ ~FreshTitleBefore(backend[n].for)
                => backend[n].json.title = t

\* schedule_event was created under the locked title for a proposal with an
\* empty title, one with a placeholder and one with no title at all
C11_RepairedTitlesDispatched ==
    /\ HistoryLocksTitle("Deposition")
    /\ \A args \in {[title |-> "", startTime |-> StartA],
                    [title |-> "Unknown", startTime |-> StartA],
                    [startTime |-> StartA]} :
          \E n \in DOMAIN backend :
              /\ IsCreate(backend[n])
              /\ ProposalOf(backend[n].for).arguments.value = args
              /\ ~FreshTitleBefore(backend[n].for)
              /\ backend[n].json.title = "Deposition"

\* the title the model wrote, under "title" or, failing that, "summary",
\* when it is neither empty nor a placeholder; None otherwise
FreshTitle(args) ==
    LET own == Or(Get(args, "title"), Get(args, "summary")) IN
    IF Truthy(own) /\ Lower(own) \notin {"unknown", "string"} THEN own ELSE None

\* C12 (as the specification states it): when a locked title exists and the
\* model writes a schedule_event with a fresh title, under "title" or under
\* "summary", the event is created under the model's title.
C12_FreshTitleWins ==
    \A n \in DOMAIN backend :
        LET p == ProposalOf(backend[n].for) IN
        /\ IsCreate(backend[n])
        /\ Truthy(p.locked.title)
        /\ FreshTitle(p.arguments.value) # None
        => backend[n].json.title = FreshTitle(p.arguments.value)

(***************************************************************************)
(* Properties of the turn lists                                            *)
(***************************************************************************)
\* the per-round status turn of lines 250-253
IsStatusTurn(m) ==
    /\ m.role = "system"
    /\ Len(m.content) >= 7
    /\ SubSeq(m.content, 1, 7) = "STATE: "

\* C13: the status turn is handed to the round's consultation only (it is
\* the second turn of the list the model is sent, the rest of which is the
\* persistent list as it was); the persistent list never holds a status
\* turn, nor any system turn after its leading policy turn; and the history
\* returned is the persistent list without the policy turn: the sanitized
\* history, the user's new turn, then the loop's assistant and tool turns.
C13_StatusTurnIsEphemeral ==
    /\ \A n \in DOMAIN messages :
          /\ ~IsStatusTurn(messages[n])
          /\ n > 1 => messages[n].role # "system"
    /\ consults > 0 =>
          /\ IsStatusTurn(loop_messages[2])
          /\ Len(loop_messages) <= Len(messages) + 1
          /\ loop_messages[1] = messages[1]
          /\ \A n \in 3..Len(loop_messages) : loop_messages[n] = messages[n - 1]
    /\ outcome.kind = "response" /\ messages # <<>> =>
          LET h == outcome.history
              c == Len(cleaned_history)
          IN  /\ Len(h) = Len(messages) - 1
              /\ \A n \in DOMAIN h : h[n] = messages[n + 1] /\ ~IsStatusTurn(h[n])
              /\ \A n \in 1..c : h[n].role = cleaned_history[n].role
              /\ h[c + 1] = [role |-> "user", content |-> inbound.prompt]
              /\ \A n \in c + 2..Len(h) : h[n].role \in {"assistant", "tool"}

\* a response was returned after two consultations, each of which saw its
\* status turn, with a history that holds the loop's tool turn
C13_ReturnedAfterTwoRounds ==
    /\ outcome.kind = "response"
    /\ consults = 2
    /\ IsStatusTurn(loop_messages[2])
    /\ \E n \in DOMAIN outcome.history : outcome.history[n].role = "tool"
    /\ cleaned_history # <<>>

(***************************************************************************)
(* Properties of the tenant context                                        *)
(***************************************************************************)
\* the request carries no tenant identifier: the header is absent or empty
NoTenant ==
    \/ "X_Tenant_ID" \notin DOMAIN inbound.headers
    \/ inbound.headers.X_Tenant_ID = ""

\* C14: a request without a tenant identifier goes nowhere but to its
\* rejection, a request-level error, with no model consultation and no
\* backend call made; a request with one is never rejected, and a role or
\* timezone it does not carry is defaulted ("associate", "UTC").
C14_TenantRequiredRoleAndZoneDefaulted ==
    /\ NoTenant =>
          /\ pc \in {"received", "rejected"}
          /\ consults = 0 /\ backend = <<>> /\ messages = <<>>
    /\ pc = "rejected" =>
          /\ NoTenant
          /\ outcome.kind = "http_error"
          /\ outcome.status \in {"401", "422"}
    /\ ~NoTenant /\ pc # "received" =>
          /\ pc # "rejected"
          /\ auth.tenant_id = inbound.headers.X_Tenant_ID
          /\ "User_Role" \notin DOMAIN inbound.headers => auth.role = "associate"
          /\ "X_User_Timezone" \notin DOMAIN inbound.headers => auth.timezone = "UTC"

\* a request with no X-Tenant-ID header was rejected
C14_MissingTenantRejected ==
    /\ "X_Tenant_ID" \notin DOMAIN inbound.headers
    /\ pc = "rejected"
    /\ outcome = [kind |-> "http_error", status |-> "422"]

(***************************************************************************)
(* Properties of the dispatch                                              *)
(***************************************************************************)
\* the backend calls issued for the proposed action with this id
CallsFor(id) == {n \in DOMAIN backend : backend[n].for = id}

\* the loop is done with the proposed action with this id
Processed(id) == id \notin Unprocessed

\* C15 (as the specification states it): under the read-only role
\* ("viewer") no schedule_event or update_event reaches the backend as a
\* POST or PATCH and each is answered with an error result, while every
\* processed get_all_events is dispatched as a GET /events.
C15_ReadOnlyRoleCannotCreate ==
    /\ auth.role = "viewer" =>
          /\ \A n \in DOMAIN backend : backend[n].method \notin {"POST", "PATCH"}
          /\ \A n \in DOMAIN proposed :
                /\ proposed[n].name \in {"schedule_event", "update_event"}
                /\ Processed(proposed[n].id)
                => \A t \in ToolTurnsFor(proposed[n].id) :
                      IsErrorText(messages[t].content)
    /\ \A n \in DOMAIN proposed :
          /\ proposed[n].name = "get_all_events"
          /\ proposed[n].arguments.json = "object"
          /\ Processed(proposed[n].id)
          => \E b \in CallsFor(proposed[n].id) :
                backend[b].method = "GET" /\ backend[b].path = "/events"

\* the auth-token endpoint up to the tenant it is asked about
AuthPath == "/auth/accessToken?tenant_id="

IsAuthCall(b) ==
    /\ b.method = "GET"
    /\ Len(b.path) >= Len(AuthPath)
    /\ SubSeq(b.path, 1, Len(AuthPath)) = AuthPath

\* C16 (as the specification states it): every backend call carries the
\* request's tenant identifier and correlation identifier as headers, and
\* the auth-token endpoint is never asked about a tenant other than the
\* request's own.
C16_BackendCallsScopedByTenant ==
    \A n \in DOMAIN backend :
        /\ "X_Tenant_ID" \in DOMAIN backend[n].headers
        /\ backend[n].headers.X_Tenant_ID = auth.tenant_id
        /\ "X_Correlation_ID" \in DOMAIN backend[n].headers
        /\ backend[n].headers.X_Correlation_ID = CorrelationId
        /\ IsAuthCall(backend[n]) => backend[n].path = AuthPath \o auth.tenant_id

\* C17: an initialize_calendar_session whose arguments carry no tenant
\* identifier (absent or empty) queries the auth-token endpoint, once, with
\* the request's tenant identifier.
C17_OmittedTenantIsInjected ==
    \A n \in DOMAIN proposed :
        /\ proposed[n].name = "initialize_calendar_session"
        /\ proposed[n].arguments.json = "object"
        /\ ~Truthy(Get(proposed[n].arguments.value, "tenant_id"))
        /\ Processed(proposed[n].id)
        => /\ Cardinality(CallsFor(proposed[n].id)) = 1
           /\ \A b \in CallsFor(proposed[n].id) :
                 /\ backend[b].method = "GET"
                 /\ backend[b].path = AuthPath \o auth.tenant_id

\* the endpoint was asked about the request's tenant for a proposal with no
\* tenant_id and for one with an empty tenant_id
C17_AbsentAndEmptyTenantInjected ==
    \A args \in {EmptyDict, [tenant_id |-> ""]} :
        \E n \in DOMAIN proposed :
            /\ proposed[n].name = "initialize_calendar_session"
            /\ proposed[n].arguments.value = args
            /\ \E b \in CallsFor(proposed[n].id) :
                  backend[b].path = AuthPath \o "t1"

\* the backend answered this call with a session: status "ready" and a token
SessionGranted(b) ==
    /\ IsAuthCall(b)
    /\ Get(b.result, "status") = "ready"
    /\ Truthy(Get(b.result, "jwtToken"))

\* C18: every backend call issued after an initialize_calendar_session
\* succeeded (later in the round or in a later round) carries, as its
\* bearer credential, the token of the latest success before it.
C18_TokenCarriedAfterSessionReady ==
    \A m \in DOMAIN backend :
        LET granted == {n \in 1..m - 1 : SessionGranted(backend[n])} IN
        granted # {} =>
            LET latest == CHOOSE n \in granted : \A o \in granted : o <= n IN
            /\ "Authorization" \in DOMAIN backend[m].headers
            /\ backend[m].headers.Authorization
                  = "Bearer " \o backend[latest].result.jwtToken

\* a session was granted with a new token while the client held the token
\* recovered from the history, and a later call of another round carried
\* the new one
C18_NewTokenReplacesRecovered ==
    \E n \in DOMAIN backend : \E m \in DOMAIN backend :
        /\ n < m
        /\ SessionGranted(backend[n])
        /\ "Authorization" \in DOMAIN backend[n].headers
        /\ backend[n].headers.Authorization = "Bearer tok-old"
        /\ ~IsAuthCall(backend[m])
        /\ backend[m].headers.Authorization = "Bearer tok-new"

\* exactly one backend call was issued for the action, with this method
OneCall(id, method) ==
    /\ Cardinality(CallsFor(id)) = 1
    /\ \A b \in CallsFor(id) : backend[b].method = method

\* C19 (as the specification states it): every processed action whose
\* precondition holds was dispatched to exactly one backend call:
\* get_all_events to GET /events, get_event_by_id with an id to a GET of
\* that event, update_event to a PATCH, initialize_calendar_session to a
\* GET of the auth-token endpoint, check_calendar_connection and
\* get_system_status to a GET.
C19_EachActionNameHasItsBackendCall ==
    \A n \in DOMAIN proposed :
        LET p == proposed[n] IN
        p.arguments.json = "object" /\ Processed(p.id) =>
            /\ p.name = "get_all_events" =>
                  /\ OneCall(p.id, "GET")
                  /\ \A b \in CallsFor(p.id) : backend[b].path = "/events"
            /\ p.name = "get_event_by_id" /\ Truthy(Get(p.arguments.value, "event_id")) =>
                  /\ OneCall(p.id, "GET")
                  /\ \A b \in CallsFor(p.id) :
                        backend[b].path = "/events/" \o p.arguments.value.event_id
            /\ p.name = "update_event" => OneCall(p.id, "PATCH")
            /\ p.name = "initialize_calendar_session" =>
                  /\ OneCall(p.id, "GET")
                  /\ \A b \in CallsFor(p.id) : IsAuthCall(backend[b])
            /\ p.name \in {"check_calendar_connection", "get_system_status"} =>
                  OneCall(p.id, "GET")

(***************************************************************************)
(* Properties of one application of sanitize_history (SanitizeSpec)        *)
(***************************************************************************)
\* C20: the result has the length and order of the argument; every turn
\* keeps its keys, its role and its proposed actions; the content of the
\* keep_last_n most recent turns (3 by default) and every content within
\* the limit is untouched; an older content over the limit is its first
\* max_content_length characters followed by the marker that states how
\* many characters were cut.
C20_SanitizeKeepsRecentCutsOlder ==
    Len(san_outs) >= 1 =>
        LET out == san_outs[1] IN
        /\ Len(out) = Len(san_in)
        /\ \A n \in DOMAIN san_in :
              LET a == san_in[n]
                  b == out[n]
                  recent == n > Len(san_in) - san_keep
                  long == a.content # None /\ Len(a.content) > san_max
              IN  /\ DOMAIN b = DOMAIN a
                  /\ b.role = a.role
                  /\ b.tool_calls = a.tool_calls
                  /\ recent \/ ~long => b.content = a.content
                  /\ ~recent /\ long =>
                        b.content = SubSeq(a.content, 1, san_max)
                                      \o " ... [Truncated: "
                                      \o ToString(Len(a.content) - san_max)
                                      \o " chars]"

\* with the default parameters a history of four turns was sanitized whose
\* oldest turn was cut by 500 characters and whose last three turns, one of
\* them over the limit, were kept whole
C20_OldestCutRecentKept ==
    /\ Len(san_outs) >= 1
    /\ san_max = DefaultMaxContentLength /\ san_keep = DefaultKeepLastN
    /\ Len(san_in) = 4
    /\ Len(san_in[1].content) = DefaultMaxContentLength + 500
    /\ Len(san_outs[1][1].content) = DefaultMaxContentLength + 27
    /\ \E n \in 2..4 :
          /\ Len(san_in[n].content) > DefaultMaxContentLength
          /\ san_outs[1][n].content = san_in[n].content

(***************************************************************************)
(* C21 .. C30                                                              *)
(***************************************************************************)
\* the conflict check of the action with this id, if one was issued
ConflictChecksFor(id) == {n \in CallsFor(id) : IsConflictCheck(backend[n])}

\* the create calls issued for the action with this id
CreatesFor(id) == {n \in CallsFor(id) : IsCreate(backend[n])}

\* C21: a conflict check whose transport failed on every attempt leaves the
\* checker answering "no conflict": the schedule_event it was issued for is
\* dispatched as a POST /events after it, the request does not fail, and
\* the action's single tool-result turn carries the result of that POST,
\* not the conflict notice.
C21_UnreachableCheckerLetsCreateThrough ==
    \A n \in DOMAIN backend :
        IsConflictCheck(backend[n]) /\ BackendUnavailable(backend[n].result) =>
            LET id == backend[n].for IN
            /\ backend[n].attempts = Retries + 1
            /\ ProposalOf(id).name = "schedule_event"
            /\ Processed(id)
            /\ pc # "failed"
            /\ \E m \in CreatesFor(id) :
                  /\ m > n
                  /\ CallsFor(id) = {n, m}
                  /\ \A t \in ToolTurnsFor(id) :
                        messages[t].content = json_dumps(backend[m].result)
            /\ Cardinality(ToolTurnsFor(id)) = 1

\* a conflict check failed on all its attempts and the event was created
C21_CreatedAfterFailedCheck ==
    \E n \in DOMAIN backend :
        /\ IsConflictCheck(backend[n])
        /\ backend[n].failures > Retries
        /\ BackendUnavailable(backend[n].result)
        /\ \E m \in CreatesFor(backend[n].for) :
              /\ m > n
              /\ "status" \in DOMAIN backend[m].result
              /\ backend[m].result.status = "created"

\* the start instant is given and no end time can be computed from it
Unparsable(args) ==
    /\ Truthy(Get(args, "startTime"))
    /\ ~IsIsoInstant(ReplaceZ(ensure_timezone_offset(args.startTime)))

InvalidTimeText ==
    json_dumps([error |-> "Invalid time format provided. Please use ISO format or clear relative time."])

\* the proposed schedule_event and update_event actions whose start instant
\* cannot be parsed
UnparsableProposals ==
    {n \in DOMAIN proposed :
        /\ proposed[n].name \in {"schedule_event", "update_event"}
        /\ proposed[n].arguments.json = "object"
        /\ Unparsable(proposed[n].arguments.value)}

\* C22: a schedule_event or update_event whose start instant cannot be
\* parsed is answered, once processed, by exactly one tool-result turn
\* holding the "Invalid time format" error; no backend call at all (no
\* POST, no PATCH, no conflict check) is issued for it; and processing it
\* does not fail the request.
C22_UnparsableStartIsNonFatalError ==
    \A n \in UnparsableProposals :
        LET id == proposed[n].id IN
        /\ CallsFor(id) = {}
        /\ Processed(id) =>
              /\ Cardinality(ToolTurnsFor(id)) = 1
              /\ \A t \in ToolTurnsFor(id) : messages[t].content = InvalidTimeText
        /\ pc = "failed" => tool_calls[k].id # id

\* an update_event and then a schedule_event of one round were both
\* answered with the error, and the request went on to a later round
C22_BothKindsAnsweredAndLoopWentOn ==
    \E n \in UnparsableProposals :
        /\ proposed[n].name = "update_event"
        /\ Processed(proposed[n].id)
        /\ n + 1 \in UnparsableProposals
        /\ proposed[n + 1].name = "schedule_event"
        /\ Processed(proposed[n + 1].id)
        /\ ToolTurnsFor(proposed[n + 1].id) # {}
        /\ Len(proposed) > n + 1

\* the tokens the backend returned in earlier exchanges
IssuedTokens == {"tok-old", "tok-older"}

\* the tool-result turns of the repaired history that embed a session token
TokenTurns ==
    {n \in DOMAIN cleaned_history :
        /\ cleaned_history[n].role = "tool"
        /\ \E t \in IssuedTokens :
              cleaned_history[n].content = json_dumps(ReadyResult(t))}

\* the token embedded in the tool-result turn at position n
EmbeddedToken(n) ==
    CHOOSE t \in IssuedTokens : cleaned_history[n].content = json_dumps(ReadyResult(t))

\* some turn of the repaired history, of any role, holds the token key
SomeTurnEmbedsToken ==
    \E n \in DOMAIN cleaned_history :
        /\ cleaned_history[n].content # None
        /\ Find(cleaned_history[n].content, "\"jwtToken\":") > 0

\* C24 (as the specification states it): when the first consultation is
\* about to be made, if tool-result turns of the repaired history embed a
\* session token the client carries the token of the newest such turn, and
\* if no turn embeds a token the client carries no credential.
C24_NewestToolTurnTokenInstalled ==
    pc = "awaiting_model" /\ consults = 0 =>
        /\ TokenTurns # {} =>
              LET newest == CHOOSE n \in TokenTurns : \A m \in TokenTurns : m <= n IN
              /\ "Authorization" \in DOMAIN headers
              /\ headers.Authorization = "Bearer " \o EmbeddedToken(newest)
        /\ ~SomeTurnEmbedsToken => "Authorization" \notin DOMAIN headers

\* the proposed actions of a history turn that carry a start instant
TimedCalls(msg) ==
    {j \in DOMAIN msg.tool_calls :
        /\ msg.tool_calls[j].arguments.json = "object"
        /\ Truthy(Get(msg.tool_calls[j].arguments.value, "startTime"))}

LastOf(S) == CHOOSE j \in S : \A o \in S : o <= j

\* the title a history turn supplies: that of its last titled action, else
\* the one its text names; None when it supplies none
TurnTitle(msg) ==
    IF TitledCalls(msg) # {}
    THEN msg.tool_calls[LastOf(TitledCalls(msg))].arguments.value.title
    ELSE IF msg.content # None /\ LockSearch(msg.content).ok
         THEN LockSearch(msg.content).group1
         ELSE None

\* the start instant a history turn supplies
TurnStart(msg) ==
    IF TimedCalls(msg) # {}
    THEN msg.tool_calls[LastOf(TimedCalls(msg))].arguments.value.startTime
    ELSE None

TitleTurns == {n \in DOMAIN cleaned_history : TurnTitle(cleaned_history[n]) # None}
StartTurns == {n \in DOMAIN cleaned_history : TurnStart(cleaned_history[n]) # None}

\* C25: when the history scan is over, each locked field holds the value
\* supplied by the newest turn of the repaired history that supplies it
\* (within a turn, by its last proposed action that does), and is empty
\* when no turn supplies it.
C25_NewestSupplierIsLocked ==
    pc = "awaiting_model" /\ consults = 0 =>
        /\ locked_params.title =
              IF TitleTurns = {} THEN None
              ELSE TurnTitle(cleaned_history[LastOf(TitleTurns)])
        /\ locked_params.startTime =
              IF StartTurns = {} THEN None
              ELSE TurnStart(cleaned_history[LastOf(StartTurns)])

\* an older turn named one title, a newer turn proposed two actions with
\* titles and start instants of their own, and the second action's were
\* locked
C25_NewerTurnSecondActionLocked ==
    /\ pc = "awaiting_model" /\ consults = 0
    /\ \E n, m \in TitleTurns :
          /\ n < m
          /\ TurnTitle(cleaned_history[n]) = "Hearing"
          /\ Cardinality(TitledCalls(cleaned_history[m])) = 2
          /\ Cardinality(TimedCalls(cleaned_history[m])) = 2
    /\ locked_params.title = "Second"
    /\ locked_params.startTime = StartB

\* a locked field holds a value that is not a placeholder token
HoldsValue(v) == Truthy(v) /\ Lower(v) \notin {"unknown", "string"}

\* C26 (as the specification states it): in every step of a request, a
\* field of the Locked Parameter Set that holds a value still holds a
\* value afterwards: it is not set back to empty or None and not replaced
\* by a placeholder token.
C26_LockedValueNeverDegrades ==
    [][\A f \in {"title", "startTime"} :
          HoldsValue(locked_params[f]) => HoldsValue(locked_params'[f])]_vars

\* the text a status turn begins with when the last action was "last"
StatusPrefix(last) == "STATE: " \o last \o " | NOW (UTC): "

StartsWith(text, prefix) ==
    Len(text) >= Len(prefix) /\ SubSeq(text, 1, Len(prefix)) = prefix

\* C27: at every consultation the sequence sent to the model is the
\* persistent list with one status turn (telling the last action) put right
\* after the policy turn, unless the list ends with an assistant turn that
\* proposes actions, in which case it is sent as it is; and in the loop the
\* list never ends so when the model is consulted (it ends with the user's
\* turn or with a tool-result turn).
C27_StatusTurnSplicedAfterPolicy ==
    [][consults' = consults + 1 =>
          LET last == messages[Len(messages)] IN
          IF last.role = "assistant" /\ HasToolCalls(last)
          THEN loop_messages' = messages
          ELSE /\ last.role \in {"user", "tool"}
               /\ Len(loop_messages') = Len(messages) + 1
               /\ loop_messages'[1] = messages[1]
               /\ loop_messages'[1].role = "system"
               /\ loop_messages'[2].role = "system"
               /\ StartsWith(loop_messages'[2].content, StatusPrefix(last_action))
               /\ \A n \in 2..Len(messages) : loop_messages'[n + 1] = messages[n]]_vars

\* a second round's consultation was sent the list ending with the first
\* round's tool-result turn, the status turn telling of the session made
\* ready in that round
C27_SecondRoundSawStatusOfFirst ==
    /\ consults = 2
    /\ Len(loop_messages) = Len(messages)
    /\ loop_messages[Len(loop_messages)].role = "tool"
    /\ StartsWith(loop_messages[2].content,
                  StatusPrefix("System Ready after initialize_calendar_session"))
    /\ \A n \in 3..Len(loop_messages) : ~IsStatusTurn(loop_messages[n])

\* C28 (as the specification states it): every POST /events is preceded in
\* the request's backend traffic by the conflict check of the same action,
\* answered without a conflict; and the calls of one action are not
\* interleaved with those of another.
C28_CreateOnlyAfterClearConflictCheck ==
    /\ \A m \in DOMAIN backend :
          IsCreate(backend[m]) =>
              \E n \in ConflictChecksFor(backend[m].for) :
                  n < m /\ ~ConflictFound(backend[n])
    /\ \A n, o \in DOMAIN backend :
          n < o /\ backend[n].for = backend[o].for =>
              \A m \in n..o : backend[m].for = backend[n].for

\* the turn at position p of seq is a tool-result turn for the action id
AnswersAt(seq, p, id) ==
    /\ seq[p].role = "tool"
    /\ "tool_call_id" \in DOMAIN seq[p]
    /\ seq[p].tool_call_id = id

\* every assistant turn of seq that proposes actions is followed, before
\* any turn that is not a tool-result turn, by a tool-result turn for each
\* of its action ids
WellFormed(seq) ==
    \A n \in DOMAIN seq :
        seq[n].role = "assistant" /\ HasToolCalls(seq[n]) =>
            \A j \in DOMAIN seq[n].tool_calls :
                \E p \in n + 1..Len(seq) :
                    /\ AnswersAt(seq, p, seq[n].tool_calls[j].id)
                    /\ \A q \in n + 1..p : seq[q].role = "tool"

\* C29 (as the specification states it): the turn list a consultation is
\* made from (the policy turn, the repaired history, the user's turn and
\* the turns of the rounds so far) is well-formed whenever the model is
\* about to be consulted.
C29_SubmittedTurnsAreWellFormed ==
    pc = "awaiting_model" => WellFormed(messages)

\* C30 (as the specification states it): for every schedule_event that was
\* checked for conflicts and then created, the window the conflict check
\* asked about is the window of the event created: the check's query holds
\* the startTime and the endTime sent in the POST.
C30_CheckedWindowIsCreatedWindow ==
    \A m \in DOMAIN backend :
        IsCreate(backend[m]) =>
            \A n \in ConflictChecksFor(backend[m].for) :
                /\ "startTime" \in DOMAIN backend[m].json
                /\ "endTime" \in DOMAIN backend[m].json
                /\ backend[n].path = ConflictPath(backend[m].json.startTime,
                                                  backend[m].json.endTime)

\* the locals of the task that plays this scenario, running or suspended
Task(s) == IF scenario = s THEN TaskLocals ELSE peer

\* no turn of the list holds this text
NowhereIn(seq, text) ==
    \A n \in DOMAIN seq :
        /\ Get(seq[n], "content") = None \/ Find(seq[n].content, text) = 0
        /\ HasToolCalls(seq[n]) =>
              \A j \in DOMAIN seq[n].tool_calls :
                  Get(seq[n].tool_calls[j].arguments.value, "title") # text

\* C23: two requests handled by interleaved tasks, one of tenant t1 that
\* initializes a session and schedules an untitled event, one of tenant t2
\* that schedules events titled "Motion" and never initializes a session.
\* Whatever the interleaving: the second never carries a credential and
\* all its calls name tenant t2; the first carries a credential only once
\* its own session was granted and all its calls name tenant t1; the first
\* never has a locked parameter and its event is created under the default
\* title at its own start instant, the second's under its own title (or,
\* before it locked one, the default) at its own start instant; and no turn kept for or sent to the model in one request
\* holds the other's title or token.
C23_InterleavedRequestsAreIsolated ==
    LET a == Task("pair_a")
        b == Task("pair_b")
    IN  /\ "Authorization" \notin DOMAIN b.headers
        /\ \A n \in DOMAIN b.backend :
              /\ "Authorization" \notin DOMAIN b.backend[n].headers
              /\ b.backend[n].headers.X_Tenant_ID = "t2"
              /\ IsCreate(b.backend[n]) =>
                    /\ b.backend[n].json.title \in {"Motion", "Scheduled Meeting"}
                    /\ b.backend[n].json.startTime = StartB
        /\ "Authorization" \in DOMAIN a.headers =>
              /\ a.headers.Authorization = "Bearer tok-new"
              /\ \E n \in DOMAIN a.backend : SessionGranted(a.backend[n])
        /\ \A n \in DOMAIN a.backend :
              /\ a.backend[n].headers.X_Tenant_ID = "t1"
              /\ IsCreate(a.backend[n]) =>
                    /\ a.backend[n].json.title = "Scheduled Meeting"
                    /\ a.backend[n].json.startTime = StartA
        /\ a.locked_params = NoLock
        /\ b.locked_params.title \in {None, "Motion"}
        /\ b.locked_params.startTime = None
        /\ NowhereIn(a.messages, "Motion") /\ NowhereIn(a.loop_messages, "Motion")
        /\ NowhereIn(b.messages, "tok-new") /\ NowhereIn(b.loop_messages, "tok-new")
        /\ a.messages # <<>> =>
              a.messages[1].content = SystemPrompt("t1", "associate")
        /\ b.messages # <<>> =>
              b.messages[1].content = SystemPrompt("t2", "associate")

\* both requests are in flight, each past its second consultation: the
\* first holds its session token and has created its event, the second
\* has locked its title and created an event
C23_BothInFlightAfterTokenAndLock ==
    LET a == Task("pair_a")
        b == Task("pair_b")
    IN  /\ a.pc \in {"awaiting_model", "executing"}
        /\ b.pc \in {"awaiting_model", "executing"}
        /\ a.consults >= 2 /\ b.consults >= 2
        /\ "Authorization" \in DOMAIN a.headers
        /\ b.locked_params.title = "Motion"
        /\ \E n \in DOMAIN a.backend : IsCreate(a.backend[n])
        /\ \E n \in DOMAIN b.backend : IsCreate(b.backend[n])

====
